---- MODULE Spec2Model ----
(***************************************************************************)
(* Model of the report pipeline of pdf-creation: the PDF merge engine      *)
(* (reportUtils.js mergePDFs), the existing-PDF annotator                  *)
(* (reportUtils.js addHeaderAndFooterToExistingPDF) and the orchestrator   *)
(* (main.js generateReport).                                               *)
(*                                                                         *)
(* A file is a record [kind, pages, size, qr]; a PDF's pages are records   *)
(* that remember which document they were created in and at which index,   *)
(* and which stamps (header, footer, QR code) were drawn on them.          *)
(***************************************************************************)
EXTENDS Integers, Sequences, FiniteSets, TLC

VARIABLES
    files,        \* the file system: path -> file content
    pc,           \* position of the generateReport run
    scanId,       \* req.params.scanId of the run
    written,      \* files written by this run, in order, with their content
    logged,       \* console.error messages of this run, in order
    responses,    \* HTTP responses sent by this run, in order
    stages,       \* the stages this run has executed, with their outcome
    mergeIn,      \* arguments of a stand-alone mergePDFs call
    mergeOut,     \* its result
    ann,          \* the frame of a stand-alone addHeaderAndFooterToExistingPDF call
    fnIn,         \* arguments of a stand-alone call of a page-builder computation
    fnOut         \* its result

vars == <<files, pc, scanId, written, logged, responses, stages, mergeIn, mergeOut, ann, fnIn, fnOut>>

runVars == <<files, pc, scanId, written, logged, responses, stages>>

mergeVars == <<mergeIn, mergeOut>>

callVars == <<ann, fnIn, fnOut>>

----------------------------------------------------------------------------
(* Bounds *)

\* largest page count of an input PDF
MaxPages == 3

\* largest number of pages the AI report adds beyond its three fixed ones
MaxExtraAiPages == 1

\* largest number of spans of an AiDetectionResult
MaxSpans == 2

\* largest length of a span, in words
MaxSpanLength == 3

\* largest total word count of an AiDetectionResult
MaxTotalWords == 10

\* largest aiCount and humanCount of a span
MaxCount == 3

\* longest crawled text, in characters
MaxTextLen == 4

\* largest start index of a span
MaxStart == 3

\* largest plagiarism score, in percent
MaxScore == 100

\* largest number of words of a body text
MaxWords == 3

\* largest vertical position a linked text is started at
MaxCursor == 4

\* largest number of lines a body text of the analysis pages wraps to
MaxLines == 3

\* the number of polls of waitForFiles that are counted
MaxPolls == 2

\* largest number of phrase entries of the phrase pages
MaxPhrases == 18

\* largest number of pieces of the text of the highlighted-text pages
MaxTokens == 30

----------------------------------------------------------------------------
(* Files and pages *)

NoQr == <<>>

Page(src, idx) == [src |-> src, idx |-> idx, header |-> FALSE, footer |-> FALSE, qr |-> NoQr]

File(kind, pages, size, qr) == [kind |-> kind, pages |-> pages, size |-> size, qr |-> qr]

Absent == File("absent", <<>>, 0, NoQr)

\* bytes that parse neither as JSON nor as PDF nor as PNG
Garbage == File("garbage", <<>>, 0, NoQr)

Pdf(pages) == File("pdf", pages, 0, NoQr)

Png == File("png", <<>>, 0, NoQr)

\* a PDF of n pages created in document src
PdfOf(src, n) == Pdf([i \in 1..n |-> Page(src, i - 1)])

\* well-formed JSON with the fields the builders read; size abstracts the
\* amount of text it carries
Json(size) == File("json", <<>>, size, NoQr)

\* well-formed JSON that lacks the fields the builders read
BadShape == File("badshape", <<>>, 0, NoQr)

----------------------------------------------------------------------------
(* fs.readFileSync followed by PDFDocument.load: the load succeeds exactly *)
(* on a present, parsable PDF                                              *)

Loadable(f) == f.kind = "pdf"

\* PDFDocument.getPageIndices: 0 .. n-1 in order
getPageIndices(doc) == [i \in 1..Len(doc.pages) |-> i - 1]

\* Array.prototype.slice(1)
slice1(arr) == IF Len(arr) = 0 THEN <<>> ELSE [i \in 1..(Len(arr) - 1) |-> arr[i + 1]]

\* PDFDocument.copyPages(src, indices): the pages of src at the indices, in
\* the order of the indices
copyPages(doc, indices) == [i \in 1..Len(indices) |-> doc.pages[indices[i] + 1]]

\* pages.forEach(page => mergedPdfDoc.addPage(page))
RECURSIVE addPages(_, _)
addPages(docPages, pages) ==
    IF pages = <<>> THEN docPages
    ELSE addPages(Append(docPages, Head(pages)), Tail(pages))

\* the catch of mergePDFs: console.error, then throw new Error(...)
MergeFailed ==
    [ok |-> FALSE, error |-> "Failed to merge PDFs", doc |-> Absent,
     logged |-> <<"Error merging PDFs:">>]

Merged(pages) == [ok |-> TRUE, error |-> "", doc |-> Pdf(pages), logged |-> <<>>]

\* a mergePDFs that does not skip the first page of the second document
mergePDFsNoSkip(fileA, fileB, skipFirstPage) ==
    IF ~Loadable(fileA) \/ ~Loadable(fileB) THEN MergeFailed
    ELSE Merged(addPages(addPages(<<>>, copyPages(fileA, getPageIndices(fileA))),
                         copyPages(fileB, getPageIndices(fileB))))

\* a mergePDFs that copies the second document first
mergePDFsSwapped(fileA, fileB, skipFirstPage) ==
    IF ~Loadable(fileA) \/ ~Loadable(fileB) THEN MergeFailed
    ELSE LET pageIndices == IF skipFirstPage THEN slice1(getPageIndices(fileB))
                            ELSE getPageIndices(fileB)
             pages2 == addPages(<<>>, copyPages(fileB, pageIndices))
         IN Merged(addPages(pages2, copyPages(fileA, getPageIndices(fileA))))

\* a mergePDFs that does not load the second document inside the try block's
\* reach: an unparsable second document is merged as an empty one
mergePDFsLenient(fileA, fileB, skipFirstPage) ==
    IF ~Loadable(fileA) THEN MergeFailed
    ELSE LET pageIndices == IF skipFirstPage THEN slice1(getPageIndices(fileB))
                            ELSE getPageIndices(fileB)
             pages1 == addPages(<<>>, copyPages(fileA, getPageIndices(fileA)))
         IN Merged(addPages(pages1, copyPages(fileB, pageIndices)))

\* mergePDFs(existingDocPath, pdfToMergePath, skipFirstPage) on the contents
\* of the two paths: the merged document, or the error thrown by the catch
mergePDFs(fileA, fileB, skipFirstPage) ==
    IF ~Loadable(fileA) \/ ~Loadable(fileB) THEN MergeFailed
    ELSE LET pages1 == copyPages(fileA, getPageIndices(fileA))
             merged1 == addPages(<<>>, pages1)
             pageIndices == IF skipFirstPage THEN slice1(getPageIndices(fileB))
                            ELSE getPageIndices(fileB)
             pages2 == copyPages(fileB, pageIndices)
         IN Merged(addPages(merged1, pages2))

----------------------------------------------------------------------------
(* The existing-PDF annotator *)

\* failures of the environment inside the annotator: QRCode.toFile cannot
\* write the temporary file, fs.writeFileSync cannot write the output
AnnotatorFaults == {"none", "toFile", "write"}

qrCodePath == "qrcode.png"

\* the URL encoded in the QR code
qrValue(interactivelink) == <<"http://62.72.58.111:4000/user/scanreport/", interactivelink>>

\* pages.forEach(page => page.drawImage(headerImage, ...))
drawHeader(pages) == [i \in 1..Len(pages) |-> [pages[i] EXCEPT !.header = TRUE]]

\* pages.forEach(page => page.drawImage(footerImage, ...))
drawFooter(pages) == [i \in 1..Len(pages) |-> [pages[i] EXCEPT !.footer = TRUE]]

\* a Step 8 that takes pages[0] for the second page
drawQrFirstPage(pages, qrCodeImage) ==
    IF Len(pages) > 1 THEN [pages EXCEPT ![1].qr = qrCodeImage.qr] ELSE pages

\* if (pages.length > 1) { secondPage.drawRectangle(...); secondPage.drawImage(qrCodeImage, ...) }
drawQr(pages, qrCodeImage) ==
    IF Len(pages) > 1 THEN [pages EXCEPT ![2].qr = qrCodeImage.qr] ELSE pages

\* addHeaderAndFooterToExistingPDF on the file system fs: the file system it
\* leaves, whether it threw, and whether it wrote outputPath
addHeaderAndFooterToExistingPDF(fs, inputPath, outputPath, headerImagePath, footerImagePath, footerLink, interactivelink, fault) ==
    LET Throw(f) == [fs |-> f, threw |-> TRUE, wroteOutput |-> FALSE]
        existing == fs[inputPath]
    IN  IF ~Loadable(existing) THEN Throw(fs)                      \* Step 1
        ELSE IF fs[headerImagePath].kind # "png" THEN Throw(fs)   \* Step 2
        ELSE IF Len(existing.pages) = 0 THEN Throw(fs)            \* getPage(0)
        ELSE IF fs[footerImagePath].kind # "png" THEN Throw(fs)   \* Step 4
        ELSE IF fault = "toFile" THEN Throw(fs)                   \* Step 6
        ELSE
          LET pages == drawFooter(drawHeader(existing.pages))
              fs1 == [fs EXCEPT ![qrCodePath] =
                         File("png", <<>>, 0, qrValue(interactivelink))]
              qrCodeImage == fs1[qrCodePath]                       \* Step 7
              stamped == drawQr(pages, qrCodeImage)                \* Step 8
          IN  IF fault = "write" THEN Throw(fs1)                   \* Step 9
              ELSE [fs |-> [fs1 EXCEPT ![outputPath] = Pdf(stamped),
                                       ![qrCodePath] = Absent],    \* Step 10
                    threw |-> FALSE, wroteOutput |-> TRUE]

----------------------------------------------------------------------------
(* The page builders, as far as the pipeline sees them: the pages they     *)
(* produce                                                                 *)

\* coverpage(data): a new jsPDF document, which starts with one page
coverpage(data) == <<Page("part1", 0)>>

\* PlagiarismdetailedAnalysisPage(doc, data): doc.addPage() and draw on it
PlagiarismdetailedAnalysisPage(doc, data) == Append(doc, Page("part1", Len(doc)))

\* AiAnalysisPage(aidata, aivalueData): the analysis page, the phrase pages
\* and the highlighted-text pages; the page breaks depend on the amount of
\* text
AiAnalysisPage(aidata, aivalueData) ==
    [i \in 1..(3 + aivalueData.size) |-> Page("part2", i - 1)]

----------------------------------------------------------------------------
(* generateReport *)

ScanIds == {"scan1", "scan2"}

RequiredFiles ==
    {"scan_results.json", "plagiarism_report.pdf", "ai_result.json", "crawled_version.json"}

OutputFiles ==
    {"part1.pdf", "header_added.pdf", "plag.pdf", "part2.pdf", "MergedFinalReport.pdf"}

AssetFiles == {"banner.png", "footerbanner.png"}

FileNames == RequiredFiles \cup OutputFiles \cup AssetFiles \cup {qrCodePath}

\* what a JSON input can be when the request arrives
JsonInputs == {Absent, Garbage, BadShape} \cup {Json(k) : k \in 0..MaxExtraAiPages}

\* what a PDF can be when the request arrives
PdfInputs(src) == {Absent, Garbage} \cup {PdfOf(src, n) : n \in 0..MaxPages}

\* what an earlier run on the same folder can have left at an output path
Leftovers(src) == {Absent, Garbage, PdfOf(src, 1)}

Write(name, content) == [name |-> name, content |-> content]

Response(status, key, text) == [status |-> status, key |-> key, text |-> text]

StageRecord(stage, outcome) ==
    [stage |-> stage, outcome |-> outcome, nwritten |-> Len(written)]

\* return res.status(404).json({ error: "scan_result.json not found in folder" })
\* that deletes the files the run has written before it returns
MissingInputRollback(stage) ==
    /\ responses' = Append(responses,
                           Response(404, "error", "scan_result.json not found in folder"))
    /\ stages' = Append(stages, StageRecord(stage, "missing"))
    /\ pc' = "done"
    /\ files' = [f \in FileNames |->
                    IF \E i \in 1..Len(written) : written[i].name = f
                    THEN Absent ELSE files[f]]
    /\ UNCHANGED <<scanId, written, logged>>

\* return res.status(404).json({ error: "scan_result.json not found in folder" })
MissingInput(stage) ==
    /\ responses' = Append(responses,
                           Response(404, "error", "scan_result.json not found in folder"))
    /\ stages' = Append(stages, StageRecord(stage, "missing"))
    /\ pc' = "done"
    /\ UNCHANGED <<files, scanId, written, logged>>

\* path.join(BASE_DIR, 'ScanDoc', userId.toString(), scanId.toString()): the
\* segments of the path; path.join never returns the empty string
folderPath(userId, id) == <<"/home/Staging-Server/skyline_backend-main", "ScanDoc", userId, id>>

\* return res.status(400).json({ error: "folderPath is required" })
BadRequest ==
    /\ responses' = Append(responses, Response(400, "error", "folderPath is required"))
    /\ stages' = Append(stages, StageRecord("checkScan", "badRequest"))
    /\ pc' = "done"
    /\ UNCHANGED <<files, scanId, written, logged>>

\* an outer catch that logs and returns without answering the request
OuterCatchSilent(stage) ==
    /\ logged' = Append(logged, "Error processing folder:")
    /\ stages' = Append(stages, StageRecord(stage, "threw"))
    /\ pc' = "done"
    /\ UNCHANGED <<files, scanId, written, responses>>

\* the outer catch: console.error, then the 500 response
OuterCatch(stage) ==
    /\ logged' = Append(logged, "Error processing folder:")
    /\ responses' = Append(responses,
                           Response(500, "error", "Server error while generating report"))
    /\ stages' = Append(stages, StageRecord(stage, "threw"))
    /\ pc' = "done"
    /\ UNCHANGED <<files, scanId, written>>

\* the check of folderPath and its 400, fs.promises.access(jsonFilePath) and
\* its 404
CheckScanResults ==
    /\ pc = "start"
    /\ IF folderPath("user", scanId) = <<>>
       THEN BadRequest
       ELSE IF files["scan_results.json"].kind = "absent"
       THEN MissingInput("checkScan")
       ELSE /\ pc' = "buildPart1"
            /\ stages' = Append(stages, StageRecord("checkScan", "ok"))
            /\ UNCHANGED <<files, scanId, written, logged, responses>>
    /\ UNCHANGED <<mergeVars, callVars>>

\* readFile, JSON.parse, coverpage, PlagiarismdetailedAnalysisPage, doc.save
BuildPart1 ==
    /\ pc = "buildPart1"
    /\ LET data == files["scan_results.json"]
       IN  IF data.kind # "json"
           THEN OuterCatch("buildPart1")
           ELSE LET doc == PlagiarismdetailedAnalysisPage(coverpage(data), data)
                IN  /\ files' = [files EXCEPT !["part1.pdf"] = Pdf(doc)]
                    /\ written' = Append(written, Write("part1.pdf", Pdf(doc)))
                    /\ stages' = Append(stages, StageRecord("buildPart1", "ok"))
                    /\ pc' = "annotate"
                    /\ UNCHANGED <<scanId, logged, responses>>
    /\ UNCHANGED <<mergeVars, callVars>>

\* the catch of the annotation step, were it to answer the request
AnnotateCatchResponds ==
    /\ logged' = Append(logged, "Error adding header to PDF:")
    /\ responses' = Append(responses, Response(500, "error", "Error adding header to PDF"))
    /\ stages' = Append(stages, StageRecord("annotate", "threw"))
    /\ pc' = "done"

\* the catch of the annotation step: console.error, and the run goes on
AnnotateCatch ==
    /\ logged' = Append(logged, "Error adding header to PDF:")
    /\ stages' = Append(stages, StageRecord("annotate", "threw"))
    /\ pc' = "merge1"
    /\ UNCHANGED responses

\* Step 3: addHeaderAndFooterToExistingPDF in its own try/catch
Annotate ==
    /\ pc = "annotate"
    /\ \E fault \in AnnotatorFaults :
         LET r == addHeaderAndFooterToExistingPDF(files, "plagiarism_report.pdf",
                      "header_added.pdf", "banner.png", "footerbanner.png",
                      "https://www.google.com", scanId, fault)
         IN  /\ files' = r.fs
             /\ written' = IF r.wroteOutput
                           THEN Append(written,
                                       Write("header_added.pdf", r.fs["header_added.pdf"]))
                           ELSE written
             /\ IF r.threw
                THEN AnnotateCatch
                ELSE /\ stages' = Append(stages, StageRecord("annotate", "ok"))
                     /\ pc' = "merge1"
                     /\ UNCHANGED <<logged, responses>>
    /\ UNCHANGED <<scanId, mergeVars, callVars>>

\* Steps 4 and 5: merge part1.pdf and header_added.pdf, skipping the first
\* page of header_added.pdf, and save the result as plag.pdf
FirstMerge ==
    /\ pc = "merge1"
    /\ LET r == mergePDFs(files["part1.pdf"], files["header_added.pdf"], TRUE)
       IN  IF r.ok
           THEN /\ files' = [files EXCEPT !["plag.pdf"] = r.doc]
                /\ written' = Append(written, Write("plag.pdf", r.doc))
                /\ stages' = Append(stages, StageRecord("merge1", "ok"))
                /\ UNCHANGED logged
           ELSE /\ logged' = (logged \o r.logged) \o <<"Error merging PDFs:">>
                /\ stages' = Append(stages, StageRecord("merge1", r.error))
                /\ UNCHANGED <<files, written>>
    /\ pc' = "checkAi"
    /\ UNCHANGED <<scanId, responses, mergeVars, callVars>>

\* fs.promises.access(aiJsonFilepath) and its 404
CheckAiResult ==
    /\ pc = "checkAi"
    /\ IF files["ai_result.json"].kind = "absent"
       THEN MissingInput("checkAi")
       ELSE /\ pc' = "checkCrawled"
            /\ stages' = Append(stages, StageRecord("checkAi", "ok"))
            /\ UNCHANGED <<files, scanId, written, logged, responses>>
    /\ UNCHANGED <<mergeVars, callVars>>

\* a check of crawled_version.json that goes on to the final merge
CheckCrawledVersionSkipsBuild ==
    /\ pc = "checkCrawled"
    /\ IF files["crawled_version.json"].kind = "absent"
       THEN MissingInput("checkCrawled")
       ELSE /\ pc' = "merge2"
            /\ stages' = Append(stages, StageRecord("checkCrawled", "ok"))
            /\ UNCHANGED <<files, scanId, written, logged, responses>>
    /\ UNCHANGED <<mergeVars, callVars>>

\* fs.promises.access(aiValueFilepath) and its 404
CheckCrawledVersion ==
    /\ pc = "checkCrawled"
    /\ IF files["crawled_version.json"].kind = "absent"
       THEN MissingInput("checkCrawled")
       ELSE /\ pc' = "buildPart2"
            /\ stages' = Append(stages, StageRecord("checkCrawled", "ok"))
            /\ UNCHANGED <<files, scanId, written, logged, responses>>
    /\ UNCHANGED <<mergeVars, callVars>>

\* readFile and JSON.parse of both AI inputs, AiAnalysisPage, doc2.save
BuildPart2 ==
    /\ pc = "buildPart2"
    /\ LET aidata == files["ai_result.json"]
           aivalueData == files["crawled_version.json"]
       IN  IF aidata.kind # "json" \/ aivalueData.kind # "json"
           THEN OuterCatch("buildPart2")
           ELSE LET doc2 == AiAnalysisPage(aidata, aivalueData)
                IN  /\ files' = [files EXCEPT !["part2.pdf"] = Pdf(doc2)]
                    /\ written' = Append(written, Write("part2.pdf", Pdf(doc2)))
                    /\ stages' = Append(stages, StageRecord("buildPart2", "ok"))
                    /\ pc' = "merge2"
                    /\ UNCHANGED <<scanId, logged, responses>>
    /\ UNCHANGED <<mergeVars, callVars>>

\* the catch of the final merge: console.error, then the 500 response
FinalMergeCatch(r, outcome) ==
    /\ logged' = (logged \o r.logged) \o <<"Error merging PDFs:">>
    /\ responses' = Append(responses, Response(500, "error", "Error merging PDFs"))
    /\ stages' = Append(stages, StageRecord("merge2", outcome))
    /\ pc' = "done"
    /\ UNCHANGED <<files, written>>

\* a final step that writes the report and answers 200 whatever mergePDFs
\* returned
FinalMergeOutcomeUnguarded(r) ==
    /\ files' = [files EXCEPT !["MergedFinalReport.pdf"] = r.doc]
    /\ written' = Append(written, Write("MergedFinalReport.pdf", r.doc))
    /\ responses' = Append(responses,
                           Response(200, "message", "Report generated successfully!"))
    /\ stages' = Append(stages, StageRecord("merge2", IF r.ok THEN "ok" ELSE r.error))
    /\ pc' = "done"
    /\ UNCHANGED logged

\* the try block of the final merge after mergePDFs has returned r or thrown:
\* when it has returned, finalMergedPdfDoc.save() succeeds and the argument
\* mergedPdfBytes of fs.promises.writeFile is evaluated.  mergedPdfBytes is a
\* const of the block of the first merge's try and is not in scope here: the
\* evaluation throws a ReferenceError, before writeFile is called, and the
\* catch of the final merge handles it
FinalMergeOutcome(r) ==
    IF r.ok
    THEN FinalMergeCatch(r, "ReferenceError")
    ELSE FinalMergeCatch(r, r.error)

\* merge plag.pdf and part2.pdf, save MergedFinalReport.pdf, answer
FinalMerge ==
    /\ pc = "merge2"
    /\ FinalMergeOutcome(mergePDFs(files["plag.pdf"], files["part2.pdf"], FALSE))
    /\ UNCHANGED <<scanId, mergeVars, callVars>>

\* no stand-alone call is in progress
NoCalls == ann = <<>> /\ fnIn = <<>> /\ fnOut = <<>>

InitRun ==
    /\ pc = "start"
    /\ scanId \in ScanIds
    /\ written = <<>>
    /\ logged = <<>>
    /\ responses = <<>>
    /\ stages = <<>>
    /\ \E scan \in JsonInputs, ai \in JsonInputs, crawled \in JsonInputs,
          report \in PdfInputs("report"),
          banner \in {Absent, Png}, footer \in {Absent, Png},
          oldHeader \in Leftovers("oldHeader"), oldPlag \in Leftovers("oldPlag"),
          oldFinal \in {Absent, PdfOf("oldFinal", 1)} :
         files = [f \in FileNames |->
                    CASE f = "scan_results.json" -> scan
                      [] f = "ai_result.json" -> ai
                      [] f = "crawled_version.json" -> crawled
                      [] f = "plagiarism_report.pdf" -> report
                      [] f = "banner.png" -> banner
                      [] f = "footerbanner.png" -> footer
                      [] f = "header_added.pdf" -> oldHeader
                      [] f = "plag.pdf" -> oldPlag
                      [] f = "MergedFinalReport.pdf" -> oldFinal
                      [] OTHER -> Absent]

Init ==
    /\ InitRun
    /\ mergeIn = [a |-> Absent, b |-> Absent, skip |-> FALSE]
    /\ mergeOut = MergeFailed
    /\ NoCalls

Next ==
    \/ CheckScanResults
    \/ BuildPart1
    \/ Annotate
    \/ FirstMerge
    \/ CheckAiResult
    \/ CheckCrawledVersion
    \/ BuildPart2
    \/ FinalMerge

Spec == Init /\ [][Next]_vars

----------------------------------------------------------------------------
(* mergePDFs on its own: any two files, either value of skipFirstPage *)

InitMerge ==
    /\ pc = "mergeCall"
    /\ mergeIn \in [a : PdfInputs("A"), b : PdfInputs("B"), skip : BOOLEAN]
    /\ mergeOut = MergeFailed
    /\ NoCalls
    /\ files = [f \in FileNames |-> Absent]
    /\ scanId = "scan1"
    /\ written = <<>>
    /\ logged = <<>>
    /\ responses = <<>>
    /\ stages = <<>>

MergeCall ==
    /\ pc = "mergeCall"
    /\ mergeOut' = mergePDFs(mergeIn.a, mergeIn.b, mergeIn.skip)
    /\ pc' = "mergeDone"
    /\ UNCHANGED <<mergeIn, files, scanId, written, logged, responses, stages, callVars>>

NextMerge == MergeCall

SpecMerge == InitMerge /\ [][NextMerge]_vars

----------------------------------------------------------------------------
(* Vocabulary of the properties *)

Ran(stage) == \E i \in 1..Len(stages) : stages[i].stage = stage

RanWith(stage, outcome) ==
    \E i \in 1..Len(stages) : stages[i].stage = stage /\ stages[i].outcome = outcome

Failed(stage) ==
    \E i \in 1..Len(stages) : stages[i].stage = stage /\ stages[i].outcome # "ok"

TimesRun(stage) == Cardinality({i \in 1..Len(stages) : stages[i].stage = stage})

Wrote(name) == \E i \in 1..Len(written) : written[i].name = name

Logged(msg) == \E i \in 1..Len(logged) : logged[i] = msg

Responded(status) == \E i \in 1..Len(responses) : responses[i].status = status

LastStage == stages[Len(stages)]

MergeReturned == pc = "mergeDone" /\ Loadable(mergeIn.a) /\ Loadable(mergeIn.b)

\* the pages of B that a merge takes: from index 1 when skipping, else all
TakenFromB(b, skip) == SubSeq(b.pages, IF skip THEN 2 ELSE 1, Len(b.pages))

----------------------------------------------------------------------------
(* Properties of mergePDFs, checked under SpecMerge *)

\* C1: the merged document's page sequence is exactly A's pages in A's order
\* followed by B's pages in B's order, from B's index 1 when skipFirstPage is
\* set and from index 0 otherwise; without skipping the page count is
\* pageCount(A)+pageCount(B), and merging with an empty B returns A's pages.
MergeKeepsOrder ==
    MergeReturned =>
        /\ mergeOut.ok
        /\ mergeOut.doc.pages = mergeIn.a.pages \o TakenFromB(mergeIn.b, mergeIn.skip)
        /\ ~mergeIn.skip =>
              Len(mergeOut.doc.pages) = Len(mergeIn.a.pages) + Len(mergeIn.b.pages)
        /\ Len(mergeIn.b.pages) = 0 => mergeOut.doc.pages = mergeIn.a.pages

MergeKeepsOrderWitness ==
    /\ MergeReturned
    /\ ~mergeIn.skip
    /\ Len(mergeIn.a.pages) >= 2
    /\ Len(mergeIn.b.pages) >= 2
    /\ Len(mergeOut.doc.pages) = Len(mergeIn.a.pages) + Len(mergeIn.b.pages)

\* the pages i of the merged document with 1 <= i <= pageCount(A) originate
\* from A, the later ones from B starting at B's index 1
SkipOrigins ==
    \A i \in 1..Len(mergeOut.doc.pages) :
        LET page == mergeOut.doc.pages[i]
            n == Len(mergeIn.a.pages)
        IN  IF i <= n
            THEN page.src = "A" /\ page.idx = i - 1
            ELSE page.src = "B" /\ page.idx = i - n

\* C2 as stated: for all A and B, a skipping merge has exactly
\* pageCount(A)+pageCount(B)-1 pages, the first pageCount(A) from A and the
\* rest from B starting at B's index 1.
MergeSkipCountAnyB ==
    (MergeReturned /\ mergeIn.skip) =>
        /\ Len(mergeOut.doc.pages) = Len(mergeIn.a.pages) + Len(mergeIn.b.pages) - 1
        /\ SkipOrigins

\* C2, amended: for all A and all B with at least one page, a skipping merge
\* has exactly pageCount(A)+pageCount(B)-1 pages, the first pageCount(A) from
\* A and the rest from B starting at B's index 1; when B has no page the
\* merged document has exactly pageCount(A) pages, all from A.
MergeSkipCount ==
    (MergeReturned /\ mergeIn.skip) =>
        /\ Len(mergeIn.b.pages) >= 1 =>
              Len(mergeOut.doc.pages) = Len(mergeIn.a.pages) + Len(mergeIn.b.pages) - 1
        /\ Len(mergeIn.b.pages) = 0 =>
              Len(mergeOut.doc.pages) = Len(mergeIn.a.pages)
        /\ SkipOrigins

MergeSkipCountWitness ==
    /\ MergeReturned
    /\ mergeIn.skip
    /\ Len(mergeIn.a.pages) >= 1
    /\ Len(mergeIn.b.pages) >= 2
    /\ Len(mergeOut.doc.pages) = Len(mergeIn.a.pages) + Len(mergeIn.b.pages) - 1

----------------------------------------------------------------------------
(* Properties of generateReport, checked under Spec *)

Done == pc = "done"

Success200 == Response(200, "message", "Report generated successfully!")

FinalReport == "MergedFinalReport.pdf"

\* the mergePDFs call of the final merge returned a document
FinalMergeReturned == Ran("merge2") /\ ~RanWith("merge2", "Failed to merge PDFs")

\* the final merge step ran to its end: merged, saved, written
FinalMergeSucceeded == RanWith("merge2", "ok")

\* C3: when every stage succeeds (all four inputs present and parsable,
\* annotation and both merges succeed), MergedFinalReport.pdf is written with
\* the pages of plag.pdf followed by all pages of part2.pdf, and the run
\* answers 200 'Report generated successfully!'.
FinalReportIsFinalMerge ==
    (/\ Done
     /\ files["scan_results.json"].kind = "json"
     /\ files["ai_result.json"].kind = "json"
     /\ files["crawled_version.json"].kind = "json"
     /\ Loadable(files["plagiarism_report.pdf"])
     /\ RanWith("annotate", "ok")
     /\ RanWith("merge1", "ok")
     /\ FinalMergeReturned)
    => /\ Wrote(FinalReport)
       /\ files[FinalReport] = Pdf(files["plag.pdf"].pages \o files["part2.pdf"].pages)
       /\ responses = <<Success200>>

\* C4: in every run in which the final merge step does not succeed,
\* MergedFinalReport.pdf is not written and the 200 success payload is not
\* sent.
NoFinalReportWithoutFinalMerge ==
    ~FinalMergeSucceeded => (~Wrote(FinalReport) /\ ~Responded(200))

NoFinalReportWithoutFinalMergeWitness ==
    /\ Done
    /\ RanWith("merge2", "Failed to merge PDFs")
    /\ ~Wrote(FinalReport)
    /\ Responded(500)

\* C5: when an input of mergePDFs cannot be read or parsed as a PDF, the call
\* throws 'Failed to merge PDFs' and returns no document, it is not made a
\* second time, and the output file of that merge (plag.pdf for the first
\* merge, MergedFinalReport.pdf for the final one) is not written by the run.
UnreadableInputFailsMerge ==
    /\ (Ran("merge1")
        /\ (~Loadable(files["part1.pdf"]) \/ ~Loadable(files["header_added.pdf"])))
       => /\ RanWith("merge1", "Failed to merge PDFs")
          /\ TimesRun("merge1") = 1
          /\ Logged("Error merging PDFs:")
          /\ ~Wrote("plag.pdf")
    /\ (Ran("merge2")
        /\ (~Loadable(files["plag.pdf"]) \/ ~Loadable(files["part2.pdf"])))
       => /\ RanWith("merge2", "Failed to merge PDFs")
          /\ TimesRun("merge2") = 1
          /\ Logged("Error merging PDFs:")
          /\ ~Wrote(FinalReport)

UnreadableInputFailsMergeWitness ==
    /\ Done
    /\ Ran("merge1")
    /\ ~Loadable(files["header_added.pdf"])
    /\ RanWith("merge1", "Failed to merge PDFs")
    /\ ~Wrote("plag.pdf")
    /\ Ran("merge2")

\* the stage of generateReport that first needs a required input file
StageNeeding(f) ==
    CASE f = "scan_results.json" -> "checkScan"
      [] f = "plagiarism_report.pdf" -> "annotate"
      [] f = "ai_result.json" -> "checkAi"
      [] f = "crawled_version.json" -> "checkCrawled"

\* the stage records at which the run found a required input file missing
MissingDetections ==
    {i \in 1..Len(stages) :
        \E f \in RequiredFiles :
            /\ files[f].kind = "absent"
            /\ stages[i].stage = StageNeeding(f)}

\* C6: if a required input file is absent, the run answers with the distinct
\* missing-input failure (404) and halts at the stage that needs the file: no
\* later stage runs.
MissingInputHalts404 ==
    \A i \in MissingDetections :
        /\ i = Len(stages)
        /\ pc = "done"
        /\ Len(responses) = 1
        /\ responses[1].status = 404

\* C7: in a run in which a required input file is missing, no output file is
\* written before the missing file is detected.
NoWriteBeforeMissingDetected ==
    \A i \in MissingDetections : stages[i].nwritten = 0

\* the failures the payloads are to tell apart
FailureClass(rec) ==
    CASE rec.stage = "checkScan" -> "missing scan_results.json"
      [] rec.stage = "checkAi" -> "missing ai_result.json"
      [] rec.stage = "checkCrawled" -> "missing crawled_version.json"
      [] rec.stage = "annotate" -> "annotation"
      [] rec.stage = "merge1" -> "first merge"
      [] rec.stage = "merge2" -> "final merge"
      [] OTHER -> "parse"

\* the failure a payload names, read off its text
PayloadClass(resp) ==
    CASE resp.text = "scan_result.json not found in folder" -> "missing scan_results.json"
      [] resp.text = "Error merging PDFs" -> "final merge"
      [] resp.text = "Server error while generating report" -> "parse"
      [] OTHER -> "none"

FailuresOfRun == {FailureClass(stages[i]) : i \in {j \in 1..Len(stages) : stages[j].outcome # "ok"}}

\* C8: every failed run ends with an explicit error payload from which a stage
\* that failed in the run can be determined.
PayloadIdentifiesStage ==
    (Done /\ FailuresOfRun # {}) =>
        /\ Len(responses) = 1
        /\ responses[1].key = "error"
        /\ PayloadClass(responses[1]) \in FailuresOfRun

\* C9: a failure of the annotate step, of the first merge or of the final
\* merge is logged and the step is not retried; after a failed annotate or
\* first merge no response is sent at that point and the run goes on to the
\* next step, so that the AI-input checks run and, when the AI inputs are
\* well-formed, part2.pdf is written; a failed final merge ends the run with
\* its error response.
StepFailureLoggedAndSkipped ==
    /\ Failed("annotate") =>
          /\ Logged("Error adding header to PDF:")
          /\ TimesRun("annotate") = 1
          /\ LastStage.stage = "annotate" => (responses = <<>> /\ pc = "merge1")
    /\ Failed("merge1") =>
          /\ Logged("Error merging PDFs:")
          /\ TimesRun("merge1") = 1
          /\ LastStage.stage = "merge1" => (responses = <<>> /\ pc = "checkAi")
    /\ Failed("merge2") =>
          /\ Logged("Error merging PDFs:")
          /\ TimesRun("merge2") = 1
          /\ Done
          /\ Len(responses) = 1
    /\ (Done /\ (Failed("annotate") \/ Failed("merge1"))) =>
          /\ Ran("checkAi")
          /\ (files["ai_result.json"].kind = "json"
              /\ files["crawled_version.json"].kind = "json") => Wrote("part2.pdf")

StepFailureLoggedAndSkippedWitness ==
    /\ Done
    /\ Failed("annotate")
    /\ Failed("merge1")
    /\ Failed("merge2")
    /\ Wrote("part2.pdf")
    /\ Len(logged) >= 4

\* the AI inputs made the run fail: one of them is missing at its check, or
\* one of them does not parse
AiInputFailure ==
    /\ Done
    /\ \/ LastStage.stage = "checkAi" /\ LastStage.outcome = "missing"
       \/ LastStage.stage = "checkCrawled" /\ LastStage.outcome = "missing"
       \/ /\ LastStage.stage = "buildPart2"
          /\ LastStage.outcome = "threw"
          /\ "garbage" \in {files["ai_result.json"].kind, files["crawled_version.json"].kind}

\* C10: when ai_result.json or crawled_version.json is missing or does not
\* parse, the run answers with an error and every upstream output it has
\* written (part1.pdf, header_added.pdf, plag.pdf) is on disk as written.
UpstreamOutputsKept ==
    AiInputFailure =>
        /\ Len(responses) = 1
        /\ responses[1].status \in {404, 500}
        /\ responses[1].key = "error"
        /\ \A i \in 1..Len(written) :
              /\ written[i].name \in {"part1.pdf", "header_added.pdf", "plag.pdf"}
              /\ files[written[i].name] = written[i].content

UpstreamOutputsKeptWitness ==
    /\ AiInputFailure
    /\ LastStage.stage = "checkAi"
    /\ Wrote("part1.pdf")
    /\ Wrote("header_added.pdf")
    /\ Wrote("plag.pdf")
    /\ files["plag.pdf"].kind = "pdf"

\* the stages of a run in the order of the code, and the output files in the
\* order of the stages that write them
StageOrder ==
    <<"checkScan", "buildPart1", "annotate", "merge1", "checkAi", "checkCrawled",
      "buildPart2", "merge2">>

OutputOrder ==
    <<"part1.pdf", "header_added.pdf", "plag.pdf", "part2.pdf", "MergedFinalReport.pdf">>

PlaceIn(seq, x) == CHOOSE i \in 1..Len(seq) : seq[i] = x

\* name was written before the i-th stage of the run started
WroteBeforeStage(name, i) ==
    \E k \in 1..stages[i].nwritten : written[k].name = name

\* C24: the stages of a run execute one after the other in the order of the
\* code, each after the one before it has completed (or, for the annotation
\* and the first merge, failed); the output files are written only in the
\* order part1.pdf, header_added.pdf, plag.pdf, part2.pdf,
\* MergedFinalReport.pdf; the first merge is attempted only after part1.pdf is
\* written and the annotation has finished, the final merge only after
\* part2.pdf is written.
StagesRunInOrder ==
    pc \in {"done"} \cup {"start", "buildPart1", "annotate", "merge1", "checkAi",
                          "checkCrawled", "buildPart2", "merge2"} =>
        /\ Len(stages) <= Len(StageOrder)
        /\ \A i \in 1..Len(stages) : stages[i].stage = StageOrder[i]
        /\ \A i \in 1..(Len(stages) - 1) :
              stages[i].outcome = "ok" \/ stages[i].stage \in {"annotate", "merge1"}
        /\ \A i, j \in 1..Len(written) :
              i < j => PlaceIn(OutputOrder, written[i].name) < PlaceIn(OutputOrder, written[j].name)
        /\ Len(stages) >= 4 => WroteBeforeStage("part1.pdf", 4)
        /\ Len(stages) >= 8 => WroteBeforeStage("part2.pdf", 8)

\* a run that went through every stage and wrote the four intermediate files
StagesRunInOrderWitness ==
    /\ pc = "done"
    /\ Len(stages) = 8
    /\ [k \in 1..Len(written) |-> written[k].name]
          = <<"part1.pdf", "header_added.pdf", "plag.pdf", "part2.pdf">>

\* C25: whenever the first merge reads header_added.pdf, the annotator wrote it
\* earlier in the same run, and whenever the final merge reads plag.pdf, the
\* first merge wrote it earlier in the same run: a file left by an earlier run
\* is never consumed.
IntermediateFilesHandedOverInRun ==
    /\ RanWith("merge1", "ok") => WroteBeforeStage("header_added.pdf", 4)
    /\ RanWith("merge2", "ReferenceError") => WroteBeforeStage("plag.pdf", 8)

\* C30: a run that has ended has sent exactly one response, with status 200,
\* 404 or 500, and a run that has not ended has sent none; the 400
\* 'folderPath is required' is never sent.
ExactlyOneResponse ==
    /\ pc = "done" =>
          /\ Len(responses) = 1
          /\ responses[1].status \in {200, 404, 500}
    /\ pc \in {"start", "buildPart1", "annotate", "merge1", "checkAi", "checkCrawled",
                "buildPart2", "merge2"} => responses = <<>>
    /\ ~Responded(400)

\* a run in which the annotation and the first merge failed without an answer
\* and the outer catch answered for a malformed ai_result.json
ExactlyOneResponseWitness ==
    /\ pc = "done"
    /\ Failed("annotate")
    /\ Failed("merge1")
    /\ RanWith("buildPart2", "threw")
    /\ responses = <<Response(500, "error", "Server error while generating report")>>

----------------------------------------------------------------------------
(* addHeaderAndFooterToExistingPDF on its own, one step per await.  The    *)
(* frame of the call holds its locals: where it is, the pages of pdfDoc,   *)
(* the embedded QR image, and the order of its effects on the temporary    *)
(* QR file and on the output.                                              *)

AnnFrame(fs, interactivelink) ==
    [at |-> "load", pages |-> <<>>, qrCodeImage |-> Absent, events |-> <<>>,
     fault |-> "none", interactivelink |-> interactivelink, fs0 |-> fs]

AnnThrow(fs, fr) == [fs |-> fs, fr |-> [fr EXCEPT !.at = "threw"]]

AnnEvent(fr, e) == [fr EXCEPT !.events = Append(@, e)]

\* Step 1: readFileSync(inputPath), await PDFDocument.load
annLoad(fs, fr, inputPath) ==
    IF ~Loadable(fs[inputPath]) THEN AnnThrow(fs, fr)
    ELSE [fs |-> fs, fr |-> [fr EXCEPT !.pages = fs[inputPath].pages, !.at = "embedHeader"]]

\* Step 2: readFileSync(headerImagePath), await pdfDoc.embedPng
annEmbedHeader(fs, fr, headerImagePath) ==
    IF fs[headerImagePath].kind # "png" THEN AnnThrow(fs, fr)
    ELSE [fs |-> fs, fr |-> [fr EXCEPT !.at = "embedFooter"]]

\* pdfDoc.getPage(0).getWidth(), Step 3, Step 4: readFileSync(footerImagePath),
\* await pdfDoc.embedPng
annEmbedFooter(fs, fr, footerImagePath) ==
    IF Len(fr.pages) = 0 THEN AnnThrow(fs, fr)
    ELSE IF fs[footerImagePath].kind # "png" THEN AnnThrow(fs, [fr EXCEPT !.pages = drawHeader(@)])
    ELSE [fs |-> fs, fr |-> [fr EXCEPT !.pages = drawHeader(@), !.at = "toFile"]]

\* Step 5, Step 6: await QRCode.toFile(qrCodePath, qrValue, ...)
annToFile(fs, fr, fault) ==
    LET drawn == [fr EXCEPT !.pages = drawFooter(@)]
    IN  IF fault = "toFile" THEN AnnThrow(fs, [drawn EXCEPT !.fault = fault])
        ELSE [fs |-> [fs EXCEPT ![qrCodePath] =
                         File("png", <<>>, 0, qrValue(fr.interactivelink))],
              fr |-> AnnEvent([drawn EXCEPT !.at = "embedQr"], "created")]

\* Step 7: readFileSync(qrCodePath), await pdfDoc.embedPng
annEmbedQr(fs, fr) ==
    IF fs[qrCodePath].kind # "png" THEN AnnThrow(fs, fr)
    ELSE [fs |-> fs,
          fr |-> AnnEvent([fr EXCEPT !.qrCodeImage = fs[qrCodePath], !.at = "save"],
                          "embedded")]

\* Step 8, Step 9: the QR code on the second page, await pdfDoc.save()
annSave(fs, fr) ==
    LET stamped == [fr EXCEPT !.pages = drawQr(@, fr.qrCodeImage), !.at = "write"]
    IN  [fs |-> fs,
         fr |-> IF Len(fr.pages) > 1 THEN AnnEvent(stamped, "drawn") ELSE stamped]

\* an end of the call that deletes the temporary QR file when the write fails
annWriteCleansUp(fs, fr, outputPath, fault) ==
    IF fault = "write"
    THEN AnnThrow([fs EXCEPT ![qrCodePath] = Absent], [fr EXCEPT !.fault = fault])
    ELSE LET fs1 == [fs EXCEPT ![outputPath] = Pdf(fr.pages)]
             wrote == AnnEvent(fr, "written")
         IN  IF fs1[qrCodePath].kind = "absent" THEN AnnThrow(fs1, wrote)
             ELSE [fs |-> [fs1 EXCEPT ![qrCodePath] = Absent],
                   fr |-> AnnEvent([wrote EXCEPT !.at = "returned"], "deleted")]

\* an end of the call that leaves the temporary QR file in place
annWriteNoUnlink(fs, fr, outputPath, fault) ==
    IF fault = "write" THEN AnnThrow(fs, [fr EXCEPT !.fault = fault])
    ELSE [fs |-> [fs EXCEPT ![outputPath] = Pdf(fr.pages)],
          fr |-> AnnEvent([fr EXCEPT !.at = "returned"], "written")]

\* fs.writeFileSync(outputPath, modifiedPdfBytes), Step 10: fs.unlinkSync(qrCodePath)
annWrite(fs, fr, outputPath, fault) ==
    IF fault = "write" THEN AnnThrow(fs, [fr EXCEPT !.fault = fault])
    ELSE LET fs1 == [fs EXCEPT ![outputPath] = Pdf(fr.pages)]
             wrote == AnnEvent(fr, "written")
         IN  IF fs1[qrCodePath].kind = "absent" THEN AnnThrow(fs1, wrote)
             ELSE [fs |-> [fs1 EXCEPT ![qrCodePath] = Absent],
                   fr |-> AnnEvent([wrote EXCEPT !.at = "returned"], "deleted")]

AnnApply(r) ==
    /\ files' = r.fs
    /\ ann' = r.fr
    /\ UNCHANGED <<pc, scanId, written, logged, responses, stages, mergeVars, fnIn, fnOut>>

AnnLoad ==
    /\ pc = "annotatorCall" /\ ann.at = "load"
    /\ AnnApply(annLoad(files, ann, "plagiarism_report.pdf"))

AnnEmbedHeader ==
    /\ pc = "annotatorCall" /\ ann.at = "embedHeader"
    /\ AnnApply(annEmbedHeader(files, ann, "banner.png"))

AnnEmbedFooter ==
    /\ pc = "annotatorCall" /\ ann.at = "embedFooter"
    /\ AnnApply(annEmbedFooter(files, ann, "footerbanner.png"))

AnnToFile ==
    /\ pc = "annotatorCall" /\ ann.at = "toFile"
    /\ \E fault \in AnnotatorFaults \ {"write"} : AnnApply(annToFile(files, ann, fault))

AnnEmbedQr ==
    /\ pc = "annotatorCall" /\ ann.at = "embedQr"
    /\ AnnApply(annEmbedQr(files, ann))

AnnSave ==
    /\ pc = "annotatorCall" /\ ann.at = "save"
    /\ AnnApply(annSave(files, ann))

AnnWrite ==
    /\ pc = "annotatorCall" /\ ann.at = "write"
    /\ \E fault \in AnnotatorFaults \ {"toFile"} :
          AnnApply(annWrite(files, ann, "header_added.pdf", fault))

\* a temporary QR file that an earlier, failed call has left behind
StaleQr == File("png", <<>>, 0, qrValue("scan0"))

InitAnnotate ==
    /\ pc = "annotatorCall"
    /\ scanId \in ScanIds
    /\ \E report \in PdfInputs("report"), banner \in {Absent, Png}, footer \in {Absent, Png},
          oldQr \in {Absent, StaleQr}, oldHeader \in {Absent, PdfOf("oldHeader", 1)} :
         files = [f \in FileNames |->
                    CASE f = "plagiarism_report.pdf" -> report
                      [] f = "banner.png" -> banner
                      [] f = "footerbanner.png" -> footer
                      [] f = qrCodePath -> oldQr
                      [] f = "header_added.pdf" -> oldHeader
                      [] OTHER -> Absent]
    /\ ann = AnnFrame(files, scanId)
    /\ written = <<>>
    /\ logged = <<>>
    /\ responses = <<>>
    /\ stages = <<>>
    /\ mergeIn = [a |-> Absent, b |-> Absent, skip |-> FALSE]
    /\ mergeOut = MergeFailed
    /\ fnIn = <<>>
    /\ fnOut = <<>>

NextAnnotate ==
    \/ AnnLoad
    \/ AnnEmbedHeader
    \/ AnnEmbedFooter
    \/ AnnToFile
    \/ AnnEmbedQr
    \/ AnnSave
    \/ AnnWrite

SpecAnnotate == InitAnnotate /\ [][NextAnnotate]_vars

----------------------------------------------------------------------------
(* Properties of the annotator, checked under SpecAnnotate *)

AnnInput == files["plagiarism_report.pdf"]

AnnOutput == files["header_added.pdf"]

AnnEnded == pc = "annotatorCall" /\ ann.at \in {"returned", "threw"}

AnnReturned == pc = "annotatorCall" /\ ann.at = "returned"

\* the call had what it needs from its environment: a parsable input, both
\* images, and no failure of the disk
AnnUndisturbed ==
    /\ Loadable(AnnInput)
    /\ files["banner.png"].kind = "png"
    /\ files["footerbanner.png"].kind = "png"
    /\ ann.fault = "none"

\* the step-by-step call and the call as generateReport's Annotate step takes
\* it leave the same file system and agree on whether the call threw
AnnotatorStepsAgree ==
    AnnEnded =>
        \E fault \in AnnotatorFaults :
            LET r == addHeaderAndFooterToExistingPDF(ann.fs0, "plagiarism_report.pdf",
                         "header_added.pdf", "banner.png", "footerbanner.png",
                         "https://www.google.com", scanId, fault)
            IN  r.fs = files /\ r.threw = (ann.at = "threw")

EventAt(e) == CHOOSE i \in 1..Len(ann.events) : ann.events[i] = e

Happened(e) == \E i \in 1..Len(ann.events) : ann.events[i] = e

\* C11: on an input document of at most one page (one page, or none) the
\* annotator completes without throwing and draws the QR code on no page.
ShortDocumentIsSkipped ==
    (AnnEnded /\ AnnUndisturbed /\ Len(AnnInput.pages) <= 1) =>
        /\ ann.at = "returned"
        /\ ~Happened("drawn")
        /\ \A i \in 1..Len(AnnOutput.pages) : AnnOutput.pages[i].qr = NoQr

\* C12: on an input document of n >= 2 pages the annotator draws the QR code,
\* encoding <base>/user/scanreport/<identifier> for the identifier of the
\* call, on page index 1 and on no other page, and draws the header and the
\* footer on every page 0..n-1.
QrOnSecondPageOnly ==
    (AnnReturned /\ Len(AnnInput.pages) >= 2) =>
        /\ Len(AnnOutput.pages) = Len(AnnInput.pages)
        /\ \A i \in 1..Len(AnnOutput.pages) :
              LET page == AnnOutput.pages[i]
              IN  /\ page.src = AnnInput.pages[i].src
                  /\ page.idx = i - 1
                  /\ page.header
                  /\ page.footer
                  /\ page.qr = IF i = 2 THEN qrValue(scanId) ELSE NoQr

QrOnSecondPageOnlyWitness ==
    /\ AnnReturned
    /\ Len(AnnInput.pages) >= 3
    /\ ann.fs0[qrCodePath] = StaleQr
    /\ AnnOutput.pages[2].qr = qrValue(scanId)

\* C13: when the annotator returns normally, the temporary QR file has been
\* created, then embedded, then deleted, in that order; the output PDF has
\* been written before the deletion; and the temporary file no longer exists.
QrFileScoped ==
    AnnReturned =>
        /\ Happened("created") /\ Happened("embedded")
        /\ Happened("written") /\ Happened("deleted")
        /\ EventAt("created") < EventAt("embedded")
        /\ EventAt("embedded") < EventAt("deleted")
        /\ EventAt("written") < EventAt("deleted")
        /\ files[qrCodePath].kind = "absent"
        /\ AnnOutput = Pdf(ann.pages)

QrFileScopedWitness ==
    /\ AnnReturned
    /\ Len(AnnInput.pages) = 1
    /\ ann.events = <<"created", "embedded", "written", "deleted">>
    /\ ann.fs0[qrCodePath] = StaleQr

\* C26: when the annotator fails after it has created the temporary QR file,
\* that file is left on disk, holding the QR code of the call; it is deleted
\* only by a call that returns; and header_added.pdf is written only after
\* every step before the write succeeded, else it is left as it was.
FailureLeavesQrFile ==
    pc = "annotatorCall" =>
        /\ (ann.at = "threw" /\ Happened("created")) =>
               /\ files[qrCodePath] = File("png", <<>>, 0, qrValue(scanId))
               /\ ~Happened("deleted")
        /\ Happened("deleted") => ann.at = "returned"
        /\ Happened("written") =>
               /\ Happened("created") /\ Happened("embedded")
               /\ EventAt("embedded") < EventAt("written")
               /\ AnnOutput = Pdf(ann.pages)
        /\ ~Happened("written") => AnnOutput = ann.fs0["header_added.pdf"]

\* the write of the output has failed after the QR file was created and read
FailureLeavesQrFileWitness ==
    /\ pc = "annotatorCall"
    /\ ann.at = "threw"
    /\ ann.fault = "write"
    /\ ann.events = <<"created", "embedded", "drawn">>
    /\ files[qrCodePath].kind = "png"
    /\ ann.fs0[qrCodePath] = Absent

----------------------------------------------------------------------------
(* JavaScript numbers, as far as the page builders use them: a rational    *)
(* n/d with d > 0, NaN, or an infinity with its sign in n.  Rounding of    *)
(* binary floating point is not modelled: arithmetic is exact.             *)

Num(n, d) == [kind |-> "num", n |-> n, d |-> d]

NaN == [kind |-> "nan", n |-> 0, d |-> 1]

Infinity(sign) == [kind |-> "inf", n |-> sign, d |-> 1]

Sign(n) == IF n > 0 THEN 1 ELSE IF n < 0 THEN -1 ELSE 0

\* a / b for two rationals of kind "num": x/0 is an infinity, 0/0 is NaN
jsDiv(a, b) ==
    IF b.n = 0
    THEN (IF a.n = 0 THEN NaN ELSE Infinity(Sign(a.n)))
    ELSE Num(a.n * b.d * Sign(b.n), a.d * b.n * Sign(b.n))

\* x * k for an integer k > 0
jsTimes(x, k) == IF x.kind = "num" THEN Num(x.n * k, x.d) ELSE x

\* k - x for an integer k
jsMinusFrom(k, x) ==
    CASE x.kind = "num" -> Num(k * x.d - x.n, x.d)
      [] x.kind = "inf" -> Infinity(0 - x.n)
      [] OTHER -> NaN

\* Number.prototype.toFixed(2): the decimal with two fraction digits nearest
\* to x, the larger one on a tie, as a count of hundredths; or the name of
\* the non-finite value
toFixed2(x) ==
    CASE x.kind = "num" ->
            [text |-> "digits", hundredths |-> (200 * x.n + x.d) \div (2 * x.d)]
      [] x.kind = "nan" -> [text |-> "NaN", hundredths |-> 0]
      [] x.kind = "inf" /\ x.n > 0 -> [text |-> "Infinity", hundredths |-> 0]
      [] OTHER -> [text |-> "-Infinity", hundredths |-> 0]

\* lengths.reduce((sum, length) => sum + length, 0)
RECURSIVE reduceSum(_, _)
reduceSum(arr, sum) ==
    IF arr = <<>> THEN sum ELSE reduceSum(Tail(arr), sum + Head(arr))

----------------------------------------------------------------------------
(* AiAnalysisPage, the analytics rows of its first page *)

\* an analytics computation that divides the total by the AI word count
aiStatisticsInverted(lengths, totalWords) ==
    LET wordLengthsSum == reduceSum(lengths, 0)
        percentage == jsTimes(jsDiv(Num(totalWords, 1), Num(wordLengthsSum, 1)), 100)
        humanTextPercentage == jsMinusFrom(100, percentage)
    IN  [wordLengthsSum |-> wordLengthsSum, percentage |-> percentage,
         humanTextPercentage |-> humanTextPercentage,
         humanWords |-> totalWords - wordLengthsSum,
         aiRow |-> toFixed2(percentage), humanRow |-> toFixed2(humanTextPercentage)]

\* wordLengthsSum, percentage, humanTextPercentage and humanWords as computed
\* for the rows "AI Text" and "Human Text", and the two percentages as the
\* rows print them
aiStatistics(lengths, totalWords) ==
    LET wordLengthsSum == reduceSum(lengths, 0)
        percentage == jsTimes(jsDiv(Num(wordLengthsSum, 1), Num(totalWords, 1)), 100)
        humanTextPercentage == jsMinusFrom(100, percentage)
        humanWords == totalWords - wordLengthsSum
    IN  [wordLengthsSum |-> wordLengthsSum, percentage |-> percentage,
         humanTextPercentage |-> humanTextPercentage, humanWords |-> humanWords,
         aiRow |-> toFixed2(percentage), humanRow |-> toFixed2(humanTextPercentage)]

\* the sequences over S of length at most n
SeqUpTo(S, n) == UNION {[1..k -> S] : k \in 0..n}

\* every variable of the pipeline run and of the other stand-alone calls at rest
NoRun ==
    /\ files = [f \in FileNames |-> Absent]
    /\ scanId = "scan1"
    /\ written = <<>>
    /\ logged = <<>>
    /\ responses = <<>>
    /\ stages = <<>>
    /\ mergeIn = [a |-> Absent, b |-> Absent, skip |-> FALSE]
    /\ mergeOut = MergeFailed
    /\ ann = <<>>

FnFrame == <<files, scanId, written, logged, responses, stages, mergeVars, ann, fnIn>>

InitAiStats ==
    /\ pc = "statsCall"
    /\ fnIn \in [lengths : SeqUpTo(0..MaxSpanLength, MaxSpans), totalWords : 0..MaxTotalWords]
    /\ fnOut = <<>>
    /\ NoRun

AiStatsCall ==
    /\ pc = "statsCall"
    /\ fnOut' = aiStatistics(fnIn.lengths, fnIn.totalWords)
    /\ pc' = "statsDone"
    /\ UNCHANGED FnFrame

NextAiStats == AiStatsCall

SpecAiStats == InitAiStats /\ [][NextAiStats]_vars

----------------------------------------------------------------------------
(* Properties of the analytics rows, checked under SpecAiStats *)

\* the sum of the entries of a sequence of numbers
SumOf(arr) ==
    LET S[i \in 0..Len(arr)] == IF i = 0 THEN 0 ELSE S[i - 1] + arr[i]
    IN  S[Len(arr)]

\* x and y of kind "num" are the same number
SameNumber(x, y) == x.kind = "num" /\ y.kind = "num" /\ x.n * y.d = y.n * x.d

\* x + y for two rationals of kind "num"
Plus(x, y) == Num(x.n * y.d + y.n * x.d, x.d * y.d)

\* C14: with totalWords > 0, totalAiWords = sum(lengths), aiPercentage =
\* totalAiWords/totalWords*100, humanWords = totalWords - totalAiWords and
\* humanPercentage = 100 - aiPercentage, so the two percentages add up to 100
\* and the two word counts to totalWords; lengths=[3,2] and totalWords=10
\* give 50.00% and 5 human words.
AiStatisticsAddUp ==
    (pc = "statsDone" /\ fnIn.totalWords > 0) =>
        /\ fnOut.wordLengthsSum = SumOf(fnIn.lengths)
        /\ SameNumber(fnOut.percentage, Num(100 * SumOf(fnIn.lengths), fnIn.totalWords))
        /\ fnOut.humanWords = fnIn.totalWords - SumOf(fnIn.lengths)
        /\ SameNumber(Plus(fnOut.percentage, fnOut.humanTextPercentage), Num(100, 1))
        /\ fnOut.wordLengthsSum + fnOut.humanWords = fnIn.totalWords
        /\ (fnIn.lengths = <<3, 2>> /\ fnIn.totalWords = 10) =>
              /\ fnOut.aiRow = [text |-> "digits", hundredths |-> 5000]
              /\ fnOut.humanWords = 5

AiStatisticsAddUpWitness ==
    /\ pc = "statsDone"
    /\ fnIn.lengths = <<3, 2>>
    /\ fnIn.totalWords = 10
    /\ fnOut.aiRow.hundredths = 5000
    /\ fnOut.humanRow.hundredths = 5000

\* C15: with totalWords = 0 the AI percentage is 0% (never NaN or Infinity),
\* whatever lengths is.
ZeroTotalWordsGivesZeroPercent ==
    (pc = "statsDone" /\ fnIn.totalWords = 0) =>
        /\ SameNumber(fnOut.percentage, Num(0, 1))
        /\ fnOut.aiRow = [text |-> "digits", hundredths |-> 0]

----------------------------------------------------------------------------
(* AiAnalysisPage, the phrase data of its second page and their order *)

Min(a, b) == IF a < b THEN a ELSE b

\* Array.prototype.slice(begin, end) for 0 <= begin: both ends are clamped to
\* the length of the array
slice(arr, begin, end) ==
    LET from == Min(begin, Len(arr))
        to == Min(end, Len(arr))
    IN  IF to <= from THEN <<>> ELSE [k \in 1..(to - from) |-> arr[from + k]]

\* Math.round: the nearest integer, the larger one on a tie; NaN and the
\* infinities are returned as they are
mathRound(x) ==
    IF x.kind = "num" THEN Num((2 * x.n + x.d) \div (2 * x.d), 1) ELSE x

\* the callback of starts.map: the entry of span i.  phrase is kept as the
\* words that join(" ") glues together; span remembers which span the entry
\* was made from
phraseEntry(text, startIndex, length, aiCount, humanCount, i) ==
    [span |-> i,
     phrase |-> slice(text, startIndex, startIndex + length),
     aiPercentage |-> mathRound(jsDiv(Num(aiCount, 1), Num(humanCount, 1))),
     aiText |-> toFixed2(Num(aiCount, 1)),
     humanText |-> toFixed2(Num(humanCount, 1))]

\* let data = starts.map((startIndex, i) => ...)
phraseData(text, starts, lengths, aiCounts, humanCounts) ==
    [k \in 1..Len(starts) |->
        phraseEntry(text, starts[k], lengths[k], aiCounts[k], humanCounts[k], k - 1)]

\* the comparator (a, b) => b.aiPercentage - a.aiPercentage as the sort reads
\* it: the sign of the difference, a NaN difference counting as 0
compareFn(a, b) ==
    LET x == b.aiPercentage
        y == a.aiPercentage
    IN  CASE x.kind = "nan" \/ y.kind = "nan" -> 0
          [] x.kind = "inf" /\ y.kind = "inf" -> Sign(x.n - y.n)
          [] x.kind = "inf" -> x.n
          [] y.kind = "inf" -> 0 - y.n
          [] OTHER -> Sign(x.n * y.d - y.n * x.d)

\* the comparator is a consistent comparator for the entries of data
Consistent(data) ==
    \A i, j, k \in 1..Len(data) :
        /\ compareFn(data[i], data[j]) = 0 - compareFn(data[j], data[i])
        /\ (compareFn(data[i], data[j]) = 0 /\ compareFn(data[j], data[k]) = 0)
              => compareFn(data[i], data[k]) = 0
        /\ (compareFn(data[i], data[j]) < 0 /\ compareFn(data[j], data[k]) < 0)
              => compareFn(data[i], data[k]) < 0

\* x put into the sorted array after every entry it does not precede
RECURSIVE insertSorted(_, _)
insertSorted(sorted, x) ==
    IF sorted = <<>> THEN <<x>>
    ELSE IF compareFn(x, Head(sorted)) < 0 THEN <<x>> \o sorted
    ELSE <<Head(sorted)>> \o insertSorted(Tail(sorted), x)

RECURSIVE stableSort(_, _)
stableSort(data, sorted) ==
    IF data = <<>> THEN sorted
    ELSE stableSort(Tail(data), insertSorted(sorted, Head(data)))

Reorderings(data) ==
    {[k \in 1..Len(data) |-> data[p[k]]] :
        p \in {q \in [1..Len(data) -> 1..Len(data)] :
                  \A a, b \in 1..Len(data) : q[a] = q[b] => a = b}}

\* data.sort((a, b) => b.aiPercentage - a.aiPercentage): the orders the sort
\* can leave.  With a consistent comparator the sort is stable and leaves one
\* order; otherwise the order is implementation-defined
sortResults(data) ==
    IF Consistent(data) THEN {stableSort(data, <<>>)} ELSE Reorderings(data)

\* the words of the text the ratios are tried on
SampleText == <<"w0", "w1", "w2">>

InitAiRatio ==
    /\ pc = "ratioCall"
    /\ \E n \in 0..MaxSpans :
          fnIn \in [starts : {[k \in 1..n |-> k - 1]},
                    lengths : {[k \in 1..n |-> 1]},
                    aiCount : [1..n -> 0..MaxCount],
                    humanCount : [1..n -> 0..MaxCount]]
    /\ fnOut = <<>>
    /\ NoRun

\* the phrase data, sorted, in the order the loop of writePhrase writes them
AiRatioCall ==
    /\ pc = "ratioCall"
    /\ \E sorted \in sortResults(phraseData(SampleText, fnIn.starts, fnIn.lengths,
                                            fnIn.aiCount, fnIn.humanCount)) :
          fnOut' = sorted
    /\ pc' = "ratioDone"
    /\ UNCHANGED FnFrame

NextAiRatio == AiRatioCall

SpecAiRatio == InitAiRatio /\ [][NextAiRatio]_vars

----------------------------------------------------------------------------
(* Properties of the phrase data, checked under SpecAiRatio *)

\* twice the distance of x from n/d is at most 1
WithinHalf(x, n, d) ==
    /\ x.kind = "num"
    /\ 2 * (x.n * d - n * x.d) <= x.d * d
    /\ 2 * (n * x.d - x.n * d) <= x.d * d

\* C16: the badge of every span shows the ratio aiCount[i]/humanCount[i] (to
\* the nearest integer), and shows 0, never Infinity or NaN, when
\* humanCount[i] is 0.
RatioGuardsZeroHumanCount ==
    pc = "ratioDone" =>
        \A k \in 1..Len(fnOut) :
            LET i == fnOut[k].span + 1
            IN  IF fnIn.humanCount[i] = 0
                THEN fnOut[k].aiPercentage = Num(0, 1)
                ELSE WithinHalf(fnOut[k].aiPercentage, fnIn.aiCount[i], fnIn.humanCount[i])

\* span i has a strictly larger ratio aiCount/humanCount than span j, both
\* ratios being defined
LargerRatio(i, j) ==
    /\ fnIn.humanCount[i] > 0
    /\ fnIn.humanCount[j] > 0
    /\ fnIn.aiCount[i] * fnIn.humanCount[j] > fnIn.aiCount[j] * fnIn.humanCount[i]

\* C17: the entries are written in descending order of the ratio
\* aiCount[i]/humanCount[i]: of two entries the one with the strictly larger
\* ratio is written first; and the entries written are a permutation of the
\* input spans.
PhrasesDescendingByRatio ==
    pc = "ratioDone" =>
        /\ Len(fnOut) = Len(fnIn.starts)
        /\ \A i \in 1..Len(fnIn.starts) : \E k \in 1..Len(fnOut) : fnOut[k].span = i - 1
        /\ \A k, l \in 1..Len(fnOut) :
              k < l => ~LargerRatio(fnOut[l].span + 1, fnOut[k].span + 1)

----------------------------------------------------------------------------
(* AiAnalysisPage, the crawled text: its words on the phrase page and on the
   highlighted-text page.  A string is the sequence of its characters. *)

\* the characters \s matches and trim removes, of those the texts are made of
WhiteSpace == {" ", "\n"}

\* the characters of the crawled texts
Chars == {"a"} \cup WhiteSpace

\* String.prototype.split(" "): a new piece starts after every single space
RECURSIVE splitBySpace(_, _, _)
splitBySpace(str, piece, pieces) ==
    IF str = <<>> THEN Append(pieces, piece)
    ELSE IF Head(str) = " "
         THEN splitBySpace(Tail(str), <<>>, Append(pieces, piece))
         ELSE splitBySpace(Tail(str), Append(piece, Head(str)), pieces)

\* String.prototype.split(/\s+/): a new piece starts after every run of
\* whitespace; a run at either end of the string leaves an empty piece there
RECURSIVE splitByWhitespace(_, _, _, _)
splitByWhitespace(str, piece, pieces, inRun) ==
    IF str = <<>> THEN Append(pieces, piece)
    ELSE IF Head(str) \in WhiteSpace
         THEN splitByWhitespace(Tail(str), <<>>,
                                IF inRun THEN pieces ELSE Append(pieces, piece), TRUE)
         ELSE splitByWhitespace(Tail(str), Append(piece, Head(str)), pieces, FALSE)

RECURSIVE trimStart(_)
trimStart(str) ==
    IF str # <<>> /\ Head(str) \in WhiteSpace THEN trimStart(Tail(str)) ELSE str

RECURSIVE trimEnd(_)
trimEnd(str) ==
    IF str # <<>> /\ str[Len(str)] \in WhiteSpace
    THEN trimEnd(SubSeq(str, 1, Len(str) - 1))
    ELSE str

\* String.prototype.trim
trim(str) == trimEnd(trimStart(str))

\* Array.prototype.includes
includes(arr, x) == \E k \in 1..Len(arr) : arr[k] = x

\* the callback of text.forEach with every word highlighted that follows a
\* start
drawnWordAfterStart(word, index, starts) ==
    [index |-> index,
     word |-> word,
     rect |-> includes(starts, index - 1),
     colour |-> IF includes(starts, index - 1) THEN "purple" ELSE "default"]

\* the callback of text.forEach for a word it does not skip: the word as it is
\* drawn, behind it a rectangle and in purple when its index is a start
drawnWord(word, index, starts) ==
    [index |-> index,
     word |-> word,
     rect |-> includes(starts, index),
     colour |-> IF includes(starts, index) THEN "purple" ELSE "default"]

\* text.forEach((word, index) => ...): the words drawn on the highlighted-text
\* page, in the order they are drawn; empty words are skipped
highlightPage(text, starts) ==
    LET all == [k \in 1..Len(text) |-> drawnWord(text[k], k - 1, starts)]
    IN  SelectSeq(all, LAMBDA e : trim(e.word) # <<>>)

\* the spans are of one word or of the longest length
InitAiText ==
    /\ pc = "textCall"
    /\ \E len \in 0..MaxTextLen, n \in 0..MaxSpans :
          fnIn \in [text : [1..len -> Chars],
                    starts : [1..n -> 0..MaxStart],
                    lengths : [1..n -> {1, MaxSpanLength}]]
    /\ fnOut = <<>>
    /\ NoRun

\* the phrase data made of the text split at spaces, then the words of the
\* text split at whitespace as the highlighted-text page draws them
AiTextCall ==
    /\ pc = "textCall"
    /\ fnOut' = [data |-> phraseData(splitBySpace(fnIn.text, <<>>, <<>>), fnIn.starts,
                                     fnIn.lengths, [k \in 1..Len(fnIn.starts) |-> 1],
                                     [k \in 1..Len(fnIn.starts) |-> 1]),
                 drawn |-> highlightPage(splitByWhitespace(fnIn.text, <<>>, <<>>, FALSE),
                                         fnIn.starts)]
    /\ pc' = "textDone"
    /\ UNCHANGED FnFrame

NextAiText == AiTextCall

SpecAiText == InitAiText /\ [][NextAiText]_vars

----------------------------------------------------------------------------
(* Properties of the words of the crawled text, checked under SpecAiText *)

\* the words of the text as each page counts them
PhraseTokens == splitBySpace(fnIn.text, <<>>, <<>>)
HighlightTokens == splitByWhitespace(fnIn.text, <<>>, <<>>, FALSE)

\* span i lies within the words of tokens
SpanWithin(i, tokens) ==
    /\ fnIn.starts[i] < Len(tokens)
    /\ fnIn.starts[i] + fnIn.lengths[i] <= Len(tokens)

\* C18: a span whose start or start+length lies outside the words of the text
\* yields a phrase that is empty or truncated on the phrase page and no
\* highlight on the highlighted-text page (a word is highlighted only for a
\* span that lies within the text); every other span has its whole phrase.
OutOfRangeSpanLeavesNoHighlight ==
    pc = "textDone" =>
        /\ Len(fnOut.data) = Len(fnIn.starts)
        /\ \A k \in 1..Len(fnOut.data) :
              IF SpanWithin(k, PhraseTokens)
              THEN Len(fnOut.data[k].phrase) = fnIn.lengths[k]
              ELSE Len(fnOut.data[k].phrase) < fnIn.lengths[k] \/ fnOut.data[k].phrase = <<>>
        /\ \A k \in 1..Len(fnOut.drawn) :
              fnOut.drawn[k].rect =>
                  \E i \in 1..Len(fnIn.starts) :
                      /\ fnIn.starts[i] = fnOut.drawn[k].index
                      /\ SpanWithin(i, HighlightTokens)

\* the indices of the words of the text that are not empty, in order
WordIndices ==
    SelectSeq([k \in 1..Len(HighlightTokens) |-> k - 1],
              LAMBDA i : HighlightTokens[i + 1] # <<>>)

\* C19: on the highlighted-text page every word of the text is drawn once, in
\* order, and a word is drawn with a highlight rectangle (and in purple) if
\* and only if its index is one of starts[]; every other word is drawn in the
\* default colour without a rectangle.
HighlightIffIndexInStarts ==
    pc = "textDone" =>
        /\ Len(fnOut.drawn) = Len(WordIndices)
        /\ \A k \in 1..Len(fnOut.drawn) :
              LET e == fnOut.drawn[k]
                  isStart == \E i \in 1..Len(fnIn.starts) : fnIn.starts[i] = e.index
              IN  /\ e.index = WordIndices[k]
                  /\ e.word = HighlightTokens[e.index + 1]
                  /\ e.rect <=> isStart
                  /\ e.colour = IF isStart THEN "purple" ELSE "default"

\* the pieces of tokens that hold more than whitespace, each with its index
\* and without the whitespace at its ends
IndexedWords(tokens) ==
    {<<i - 1, trim(tokens[i])>> : i \in {k \in 1..Len(tokens) : trim(tokens[k]) # <<>>}}

\* C28: for every crawled text the tokenization of the phrase page and the
\* tokenization of the highlighted-text page give every word the same index,
\* so that a start index refers to the same word on both pages.
TokenizationsAgree ==
    pc = "textDone" => IndexedWords(PhraseTokens) = IndexedWords(HighlightTokens)

\* a text with an empty piece in front, one word highlighted and one not
HighlightIffIndexInStartsWitness ==
    /\ pc = "textDone"
    /\ Len(fnOut.drawn) < Len(HighlightTokens)
    /\ \E k \in 1..Len(fnOut.drawn) : fnOut.drawn[k].rect
    /\ \E k \in 1..Len(fnOut.drawn) : ~fnOut.drawn[k].rect

----------------------------------------------------------------------------
(* drawPlagiarismCircle.  An angle is a whole number of units, TurnUnits of
   them to the full revolution 2 * Math.PI; the arithmetic on them is exact,
   the rounding of the doubles is left out.  A point of the circle is given by
   its angle. *)

\* 2 * Math.PI
TurnUnits == 10000

\* const startAngle = -Math.PI / 2
startAngle == 0 - (TurnUnits \div 4)

\* const endAngle = startAngle + (2 * Math.PI * (score / 100))
endAngle(score) == startAngle + ((TurnUnits * score) \div 100)

\* const segments = 100
segments == 100

\* the increment with the start angle left in
angleIncrementFromZero(score) == endAngle(score) \div segments

\* const angleIncrement = (endAngle - startAngle) / segments
angleIncrement(score) == (endAngle(score) - startAngle) \div segments

InitArc ==
    /\ pc = "arcLoop"
    /\ fnIn \in [score : 0..MaxScore]
    /\ fnOut = [i |-> 0, angle |-> startAngle, lines |-> <<>>, text |-> <<>>]
    /\ NoRun

\* one turn of the loop: doc.line from the point at angle to the point at
\* angle + angleIncrement
ArcSegment ==
    /\ pc = "arcLoop"
    /\ fnOut.i < segments
    /\ LET next == fnOut.angle + angleIncrement(fnIn.score)
       IN  fnOut' = [fnOut EXCEPT !.i = @ + 1,
                                  !.angle = next,
                                  !.lines = Append(@, [from |-> fnOut.angle, to |-> next])]
    /\ UNCHANGED <<pc, FnFrame>>

\* the loop is left and the percentage is written inside the circle
ArcText ==
    /\ pc = "arcLoop"
    /\ fnOut.i >= segments
    /\ fnOut' = [fnOut EXCEPT !.text = <<fnIn.score, "%">>]
    /\ pc' = "arcDone"
    /\ UNCHANGED FnFrame

NextArc == ArcSegment \/ ArcText

SpecArc == InitArc /\ [][NextArc]_vars

----------------------------------------------------------------------------
(* Properties of drawPlagiarismCircle, checked under SpecArc *)

\* C20: for every score s the arc is exactly 100 line segments, each starting
\* where the one before ended, the first starting at -90 degrees, the last
\* ending at -90 + 360 * (s / 100) degrees, each spanning 1/100 of the sweep;
\* at s = 0 every segment has zero length and at s = 100 the end is one full
\* revolution from the start.
ArcIsHundredContiguousSegments ==
    pc = "arcDone" =>
        LET lines == fnOut.lines
            s == fnIn.score
        IN  /\ Len(lines) = 100
            /\ 360 * lines[1].from = (0 - 90) * TurnUnits
            /\ \A k \in 1..99 : lines[k + 1].from = lines[k].to
            /\ 36000 * lines[100].to = TurnUnits * (360 * s - 9000)
            /\ \A k \in 1..100 :
                  100 * (lines[k].to - lines[k].from) = lines[100].to - lines[1].from
            /\ s = 0 => \A k \in 1..100 : lines[k].to = lines[k].from
            /\ s = 100 => lines[100].to - lines[1].from = TurnUnits

\* the arc of a score of 25 percent has been drawn
ArcIsHundredContiguousSegmentsWitness ==
    /\ pc = "arcDone"
    /\ fnIn.score = 25
    /\ Len(fnOut.lines) = segments
    /\ fnOut.lines[segments].to = 0

----------------------------------------------------------------------------
(* addTextWithLink.  Lengths are whole millimetres; a body text is the
   sequence of the widths of its words. *)

\* doc.internal.pageSize.width of new jsPDF(): an A4 page in millimetres
pageWidth == 210

\* the width of the space between two words of a line
spaceWidth == 1

\* the widths of the words the body texts are made of
WordWidths == {40, 100}

\* const maxWidth = doc.internal.pageSize.width / div - 30
maxWidth(div) == (pageWidth \div div) - 30

\* the lines the words wrap to: a word goes to the next line when it does not
\* fit behind the words of the current one
RECURSIVE wrapWords(_, _, _, _, _)
wrapWords(words, width, line, used, lines) ==
    IF words = <<>> THEN Append(lines, line)
    ELSE IF line = <<>>
         THEN wrapWords(Tail(words), width, <<Head(words)>>, Head(words), lines)
    ELSE IF used + spaceWidth + Head(words) <= width
         THEN wrapWords(Tail(words), width, Append(line, Head(words)),
                        used + spaceWidth + Head(words), lines)
    ELSE wrapWords(Tail(words), width, <<Head(words)>>, Head(words), Append(lines, line))

\* doc.splitTextToSize(text, maxWidth): at least one line, also for an empty
\* text
splitTextToSize(text, width) == wrapWords(text, width, <<>>, 0, <<>>)

\* addTextWithLink without the spacing after the link
addTextWithLinkNoSpacing(text, y, div) ==
    LET textLines == splitTextToSize(text, maxWidth(div))
    IN  [textLines |-> textLines,
         textY |-> y,
         linkY |-> y + Len(textLines) * 4,
         returned |-> y + Len(textLines) * 4]

\* addTextWithLink: where the body text and the link label are drawn, and the
\* Y it returns
addTextWithLink(text, y, div) ==
    LET textLines == splitTextToSize(text, maxWidth(div))
    IN  [textLines |-> textLines,
         textY |-> y,
         linkY |-> y + Len(textLines) * 4,
         returned |-> y + Len(textLines) * 4 + 6]

InitLink ==
    /\ pc = "linkCall"
    /\ fnIn \in [text : SeqUpTo(WordWidths, MaxWords), y : 0..MaxCursor, div : {1, 2}]
    /\ fnOut = <<>>
    /\ NoRun

AddTextWithLinkCall ==
    /\ pc = "linkCall"
    /\ fnOut' = addTextWithLink(fnIn.text, fnIn.y, fnIn.div)
    /\ pc' = "linkDone"
    /\ UNCHANGED FnFrame

NextLink == AddTextWithLinkCall

SpecLink == InitLink /\ [][NextLink]_vars

----------------------------------------------------------------------------
(* Properties of addTextWithLink, checked under SpecLink *)

\* C21: addTextWithLink returns inputY + lineCount * 4 + 6, lineCount being
\* the number of lines the body text wraps to (at least one), and draws the
\* link label at inputY + lineCount * 4.
LinkedTextReturnsNextY ==
    pc = "linkDone" =>
        LET lineCount == Len(fnOut.textLines)
        IN  /\ lineCount >= 1
            /\ fnOut.textY = fnIn.y
            /\ fnOut.linkY = fnIn.y + lineCount * 4
            /\ fnOut.returned = fnIn.y + lineCount * 4 + 6

\* a body text that wraps to three lines: the Y returned is inputY + 18
LinkedTextReturnsNextYWitness ==
    /\ pc = "linkDone"
    /\ Len(fnOut.textLines) = 3
    /\ fnOut.returned = fnIn.y + 18

----------------------------------------------------------------------------
(* The linked-text blocks of PlagiarismdetailedAnalysisPage and of the first
   page of AiAnalysisPage.  A block is its heading (with the circle or the
   separator line drawn for it) and its call of addTextWithLink. *)

Max(a, b) == IF a > b THEN a ELSE b

\* const colSpacing = 20
colSpacing == 20

\* a block: the columns it lies in, the Y of what is drawn for its heading,
\* and its linked text
Block(name, cols, marks, link) ==
    [name |-> name, cols |-> cols, marks |-> marks, link |-> link]

\* the three full-width blocks that follow a first full-width block, each
\* started 2 below the Y the block before returned
RECURSIVE fullWidthBlocks(_, _, _)
fullWidthBlocks(names, texts, rowY) ==
    IF names = <<>> THEN <<>>
    ELSE LET link == addTextWithLink(Head(texts), rowY + 2 + 5, 1)
         IN  <<Block(Head(names), {"left", "right"}, <<rowY + 2>>, link)>>
                 \o fullWidthBlocks(Tail(names), Tail(texts), link.returned)

\* the blocks with the second row started below the left block only
PlagiarismBlocksLeftOnly(sectionStartY, texts) ==
    LET rowY0 == sectionStartY + 25
        b1 == Block("Identical", {"left"}, <<rowY0 - 3, rowY0 - 3>>,
                    addTextWithLink(texts[1], rowY0 + 5, 2))
        minorChangesY == sectionStartY + 23
        b2 == Block("Minor Changes", {"right"}, <<minorChangesY - 3, minorChangesY - 2>>,
                    addTextWithLink(texts[2], minorChangesY + 5, 2))
        rowY1 == b1.link.returned + colSpacing - 10
        b3 == Block("Paraphrased", {"left"}, <<rowY1 - 3, rowY1 - 2>>,
                    addTextWithLink(texts[3], rowY1 + 5, 2))
        rowY2 == b3.link.returned
        b4 == Block("Omitted Words", {"right"}, <<rowY2 - 24, rowY2 - 23>>,
                    addTextWithLink(texts[4], rowY2 - 15, 2))
        rowY3 == b4.link.returned + 2
        b5 == Block("Internal Database", {"left", "right"}, <<rowY3, rowY3 + 5>>,
                    addTextWithLink(texts[5], rowY3 + 5 + 5, 1))
    IN  <<b1, b2, b3, b4, b5>>
            \o fullWidthBlocks(<<"Filtered and Excluded Results", "Current Batch Results">>,
                               SubSeq(texts, 6, 7), b5.link.returned)

\* PlagiarismdetailedAnalysisPage, its seven blocks in the order they are
\* drawn: two rows of two columns, the separator line, three full-width blocks
PlagiarismBlocks(sectionStartY, texts) ==
    LET rowY0 == sectionStartY + 25
        b1 == Block("Identical", {"left"}, <<rowY0 - 3, rowY0 - 3>>,
                    addTextWithLink(texts[1], rowY0 + 5, 2))
        minorChangesY == sectionStartY + 23
        b2 == Block("Minor Changes", {"right"}, <<minorChangesY - 3, minorChangesY - 2>>,
                    addTextWithLink(texts[2], minorChangesY + 5, 2))
        rowY1 == Max(b1.link.returned, b2.link.returned) + colSpacing - 10
        b3 == Block("Paraphrased", {"left"}, <<rowY1 - 3, rowY1 - 2>>,
                    addTextWithLink(texts[3], rowY1 + 5, 2))
        rowY2 == b3.link.returned
        b4 == Block("Omitted Words", {"right"}, <<rowY2 - 24, rowY2 - 23>>,
                    addTextWithLink(texts[4], rowY2 - 15, 2))
        rowY3 == b4.link.returned + 2
        b5 == Block("Internal Database", {"left", "right"}, <<rowY3, rowY3 + 5>>,
                    addTextWithLink(texts[5], rowY3 + 5 + 5, 1))
    IN  <<b1, b2, b3, b4, b5>>
            \o fullWidthBlocks(<<"Filtered and Excluded Results", "Current Batch Results">>,
                               SubSeq(texts, 6, 7), b5.link.returned)

\* the first page of AiAnalysisPage, its seven blocks in the order they are
\* drawn: one row of two columns, the separator line, five full-width blocks
AiBlocks(sectionStartY, texts) ==
    LET rowY0 == sectionStartY + 25
        b1 == Block("AI Text", {"left"}, <<rowY0 - 3, rowY0 - 3>>,
                    addTextWithLink(texts[1], rowY0 + 5, 2))
        minorChangesY == sectionStartY + 23
        b2 == Block("Human Text", {"right"}, <<minorChangesY - 3, minorChangesY - 2>>,
                    addTextWithLink(texts[2], minorChangesY + 5, 2))
        rowY1 == b1.link.returned + 2
        b3 == Block("AI Detector Effectiveness", {"left", "right"}, <<rowY1, rowY1 + 5>>,
                    addTextWithLink(texts[3], rowY1 + 5 + 5, 1))
    IN  <<b1, b2, b3>>
            \o fullWidthBlocks(<<"Ideal Text Length", "Reasons It Might Be AI",
                                 "User AI Alert History", "AI Insights">>,
                               SubSeq(texts, 4, 7), b3.link.returned)

\* a body text that wraps to n lines whatever the width divisor
TextOfLines(n) == [k \in 1..n |-> 100]

InitLayout ==
    /\ pc \in {"plagiarismLayoutCall", "aiLayoutCall"}
    /\ fnIn \in [sectionStartY : 20..(20 + MaxCursor),
                 texts : [1..7 -> {TextOfLines(n) : n \in 1..MaxLines}]]
    /\ fnOut = <<>>
    /\ NoRun

PlagiarismLayoutCall ==
    /\ pc = "plagiarismLayoutCall"
    /\ fnOut' = PlagiarismBlocks(fnIn.sectionStartY, fnIn.texts)
    /\ pc' = "plagiarismLayoutDone"
    /\ UNCHANGED FnFrame

AiLayoutCall ==
    /\ pc = "aiLayoutCall"
    /\ fnOut' = AiBlocks(fnIn.sectionStartY, fnIn.texts)
    /\ pc' = "aiLayoutDone"
    /\ UNCHANGED FnFrame

NextLayout == PlagiarismLayoutCall \/ AiLayoutCall

SpecLayout == InitLayout /\ [][NextLayout]_vars

----------------------------------------------------------------------------
(* Properties of the linked-text blocks, checked under SpecLayout *)

\* the smallest Y at which something of block b is drawn
BlockStart(b) ==
    CHOOSE y \in {b.marks[k] : k \in 1..Len(b.marks)} \cup {b.link.textY} :
        \A z \in {b.marks[k] : k \in 1..Len(b.marks)} \cup {b.link.textY} : y <= z

\* no block starts above the Y returned by a block drawn before it in a
\* column they share
NoOverlap(blocks) ==
    \A j, k \in 1..Len(blocks) :
        (j < k /\ blocks[j].cols \cap blocks[k].cols # {})
            => BlockStart(blocks[k]) >= blocks[j].link.returned

LayoutDone == pc \in {"plagiarismLayoutDone", "aiLayoutDone"}

\* the number of lines the body text of the i-th block wraps to
LinesOf(i) == Len(fnOut[i].link.textLines)

----------------------------------------------------------------------------
(* Two requests of generateReport for different scans, each in its call of
   addHeaderAndFooterToExistingPDF at the same time.  The calls take turns at
   their awaits; ann holds the frame of each.  Every scan has its own folder,
   the two images and the temporary QR file are in the directory of the
   program. *)

Requests == {1, 2}

\* req.params.scanId of request p
Identifier(p) == IF p = 1 THEN "scan1" ELSE "scan2"

\* path.join(folderPath, "plagiarism_report.pdf")
inputPdfPath(p) == IF p = 1 THEN "scan1/plagiarism_report.pdf" ELSE "scan2/plagiarism_report.pdf"

\* path.join(folderPath, "header_added.pdf")
outputPdfPath(p) == IF p = 1 THEN "scan1/header_added.pdf" ELSE "scan2/header_added.pdf"

ConcurrentFileNames ==
    {inputPdfPath(p) : p \in Requests} \cup {outputPdfPath(p) : p \in Requests}
        \cup AssetFiles \cup {qrCodePath}

InitConcurrent ==
    /\ pc = "concurrentCall"
    /\ scanId = "scan1"
    /\ \E n1, n2 \in 1..MaxPages :
          files = [f \in ConcurrentFileNames |->
                     CASE f = inputPdfPath(1) -> PdfOf("report1", n1)
                       [] f = inputPdfPath(2) -> PdfOf("report2", n2)
                       [] f \in AssetFiles -> Png
                       [] OTHER -> Absent]
    /\ ann = [p \in Requests |-> AnnFrame(files, Identifier(p))]
    /\ written = <<>>
    /\ logged = <<>>
    /\ responses = <<>>
    /\ stages = <<>>
    /\ mergeIn = [a |-> Absent, b |-> Absent, skip |-> FALSE]
    /\ mergeOut = MergeFailed
    /\ fnIn = <<>>
    /\ fnOut = <<>>

\* request p takes the step r
ConcApply(p, r) ==
    /\ files' = r.fs
    /\ ann' = [ann EXCEPT ![p] = r.fr]
    /\ UNCHANGED <<pc, scanId, written, logged, responses, stages, mergeVars, fnIn, fnOut>>

ConcLoad ==
    \E p \in Requests :
        /\ pc = "concurrentCall" /\ ann[p].at = "load"
        /\ ConcApply(p, annLoad(files, ann[p], inputPdfPath(p)))

ConcEmbedHeader ==
    \E p \in Requests :
        /\ pc = "concurrentCall" /\ ann[p].at = "embedHeader"
        /\ ConcApply(p, annEmbedHeader(files, ann[p], "banner.png"))

ConcEmbedFooter ==
    \E p \in Requests :
        /\ pc = "concurrentCall" /\ ann[p].at = "embedFooter"
        /\ ConcApply(p, annEmbedFooter(files, ann[p], "footerbanner.png"))

ConcToFile ==
    \E p \in Requests :
        /\ pc = "concurrentCall" /\ ann[p].at = "toFile"
        /\ \E fault \in AnnotatorFaults \ {"write"} :
              ConcApply(p, annToFile(files, ann[p], fault))

ConcEmbedQr ==
    \E p \in Requests :
        /\ pc = "concurrentCall" /\ ann[p].at = "embedQr"
        /\ ConcApply(p, annEmbedQr(files, ann[p]))

ConcSave ==
    \E p \in Requests :
        /\ pc = "concurrentCall" /\ ann[p].at = "save"
        /\ ConcApply(p, annSave(files, ann[p]))

ConcWrite ==
    \E p \in Requests :
        /\ pc = "concurrentCall" /\ ann[p].at = "write"
        /\ \E fault \in AnnotatorFaults \ {"toFile"} :
              ConcApply(p, annWrite(files, ann[p], outputPdfPath(p), fault))

NextConcurrent ==
    \/ ConcLoad
    \/ ConcEmbedHeader
    \/ ConcEmbedFooter
    \/ ConcToFile
    \/ ConcEmbedQr
    \/ ConcSave
    \/ ConcWrite

SpecConcurrent == InitConcurrent /\ [][NextConcurrent]_vars

----------------------------------------------------------------------------
(* Properties of two concurrent calls, checked under SpecConcurrent *)

\* C23: in every interleaving of two concurrent calls for different scans each
\* call embeds (and draws on its second page) the QR code of its own
\* identifier, and a call throws only for a failure of its own (here: of the
\* disk at one of its own writes), never because of what the other call did
\* to the temporary QR file.
ConcurrentCallsIndependent ==
    pc = "concurrentCall" =>
        \A p \in Requests :
            /\ ann[p].qrCodeImage.kind = "png"
                  => ann[p].qrCodeImage.qr = qrValue(Identifier(p))
            /\ ann[p].at = "returned"
                  => \A i \in 1..Len(files[outputPdfPath(p)].pages) :
                        files[outputPdfPath(p)].pages[i].qr
                            \in {NoQr, qrValue(Identifier(p))}
            /\ ann[p].at = "threw" => ann[p].fault # "none"

----------------------------------------------------------------------------
(* waitForFiles.  The export writes the required files of the folder while
   the function polls; nothing keeps a file from being removed again. *)

\* what a required file can hold once it exists
Exported == {Garbage, Json(0)}

\* fs.existsSync(filePath)
existsSync(fs, file) == fs[file].kind # "absent"

\* a poll that is content with one of the files
checkFilesAny(fs) == \E file \in RequiredFiles : existsSync(fs, file)

\* checkFiles: false at the first required file that does not exist
checkFiles(fs) == \A file \in RequiredFiles : existsSync(fs, file)

InitWait ==
    /\ pc = "waitPoll"
    /\ \E present \in [RequiredFiles -> {Absent} \cup Exported] :
          files = [f \in FileNames |-> IF f \in RequiredFiles THEN present[f] ELSE Absent]
    /\ fnIn = <<>>
    /\ fnOut = [polls |-> 0, filesExist |-> FALSE]
    /\ scanId = "scan1"
    /\ written = <<>>
    /\ logged = <<>>
    /\ responses = <<>>
    /\ stages = <<>>
    /\ mergeIn = [a |-> Absent, b |-> Absent, skip |-> FALSE]
    /\ mergeOut = MergeFailed
    /\ ann = <<>>

WaitFrame == <<scanId, written, logged, responses, stages, mergeVars, ann, fnIn>>

\* filesExist = await checkFiles(), and the test of the while loop; polls
\* counts the polls up to MaxPolls
WaitPoll ==
    /\ pc = "waitPoll"
    /\ fnOut' = [polls |-> Min(fnOut.polls + 1, MaxPolls), filesExist |-> checkFiles(files)]
    /\ pc' = IF checkFiles(files) THEN "waitDone" ELSE "waitSleep"
    /\ UNCHANGED <<files, WaitFrame>>

\* await new Promise(resolve => setTimeout(resolve, 1000))
WaitTimer ==
    /\ pc = "waitSleep"
    /\ pc' = "waitPoll"
    /\ UNCHANGED <<files, fnOut, WaitFrame>>

\* the export creates a required file
FileAppears ==
    /\ pc \in {"waitPoll", "waitSleep", "waitDone"}
    /\ \E f \in RequiredFiles, content \in Exported :
          /\ files[f].kind = "absent"
          /\ files' = [files EXCEPT ![f] = content]
    /\ UNCHANGED <<pc, fnOut, WaitFrame>>

\* a required file is removed
FileRemoved ==
    /\ pc \in {"waitPoll", "waitSleep", "waitDone"}
    /\ \E f \in RequiredFiles :
          /\ files[f].kind # "absent"
          /\ files' = [files EXCEPT ![f] = Absent]
    /\ UNCHANGED <<pc, fnOut, WaitFrame>>

NextWait == WaitPoll \/ WaitTimer \/ FileAppears \/ FileRemoved

\* the event loop runs a continuation that is ready and fires a timer that is
\* due; nothing is assumed of the files
SpecWait == InitWait /\ [][NextWait]_vars /\ WF_vars(WaitPoll) /\ WF_vars(WaitTimer)

----------------------------------------------------------------------------
(* Properties of waitForFiles, checked under SpecWait *)

AllRequiredExist == \A f \in RequiredFiles : files[f].kind # "absent"

\* C29: waitForFiles returns only at a poll that finds all four required
\* files, and polls again after each timer until then; if from some time on
\* all four files exist, it eventually returns; if one of them never exists,
\* it never returns.
WaitReturnsWhenAllExist ==
    /\ [][(pc # "waitDone" /\ pc' = "waitDone") => (pc = "waitPoll" /\ AllRequiredExist)]_vars
    /\ [][(pc = "waitSleep" /\ pc' # "waitSleep") => pc' = "waitPoll"]_vars
    /\ (<>[]AllRequiredExist) => <>(pc = "waitDone")
    /\ \A f \in RequiredFiles : ([](files[f].kind = "absent")) => [](pc # "waitDone")

\* the function has returned at its second poll or a later one
WaitReturnsWhenAllExistWitness ==
    /\ pc = "waitDone"
    /\ fnOut.polls >= 2
    /\ fnOut.filesExist

----------------------------------------------------------------------------
(* AiAnalysisPage, the vertical cursor and the page breaks of the phrase
   pages and of the highlighted-text pages.  The cursor is the page that is
   drawn on and the position x, y on it. *)

\* let lineHeight = 10
lineHeight == 10

\* let maxY = 280, const bottomMargin = 280
maxY == 280
bottomMargin == 280

\* doc.getTextWidth(word + " ") of the words of the text
TokenWidths == {100, 250}

\* doc.addPage()
addPage(cur) == [cur EXCEPT !.page = @ + 1]

\* a page break that leaves the cursor where it is
checkPageBreakNoReset(cur) ==
    IF cur.y > maxY THEN addPage(cur) ELSE cur

\* checkPageBreak: if (y > maxY) { doc.addPage(); y = 20; }
checkPageBreak(cur) ==
    IF cur.y > maxY THEN [addPage(cur) EXCEPT !.y = 20] ELSE cur

\* what is drawn at Y y on the page of the cursor
Line(cur, y) == [y |-> y, page |-> cur.page]

\* writePhrase: the badge with the phrase, the AI text and the human text;
\* the entry as it is drawn and the cursor after it
writePhrase(cur) ==
    [entry |-> [kind |-> "phrase", y |-> cur.y, page |-> cur.page,
                lines |-> <<Line(cur, cur.y), Line(cur, cur.y + lineHeight),
                            Line(cur, cur.y + lineHeight + lineHeight)>>],
     cur |-> [cur EXCEPT !.y = @ + lineHeight + lineHeight + (lineHeight * 12) \div 10]]

\* the callback of text.forEach for a word of width wordWidth: the word as it
\* is drawn and the cursor after the wrap and the page break
writeWord(cur, wordWidth) ==
    LET moved == [cur EXCEPT !.x = @ + wordWidth]
        wrapped == IF moved.x > pageWidth
                   THEN [moved EXCEPT !.x = 10, !.y = @ + lineHeight]
                   ELSE moved
    IN  [entry |-> [kind |-> "word", y |-> cur.y, page |-> cur.page,
                    lines |-> <<Line(cur, cur.y)>>],
         cur |-> IF wrapped.y > bottomMargin
                 THEN [addPage(wrapped) EXCEPT !.y = 20]
                 ELSE wrapped]

InitAiPages ==
    /\ pc = "phraseHeader"
    /\ fnIn \in [phrases : 0..MaxPhrases]
    /\ fnOut = [cur |-> [page |-> 1, x |-> 10, y |-> 0], i |-> 0, drawn |-> <<>>]
    /\ NoRun

\* doc.addPage(), the cursor at its start, the header of the phrase page
PhraseHeader ==
    /\ pc = "phraseHeader"
    /\ fnOut' = [fnOut EXCEPT !.cur = [addPage(@) EXCEPT !.x = 10, !.y = 20 + 15]]
    /\ pc' = "phraseLoop"
    /\ UNCHANGED FnFrame

\* one turn of the loop over the sorted phrases: the entry of the first
\* column, a page break, and, if there is one, the entry of the second column
\* and a page break
PhraseTurn ==
    /\ pc = "phraseLoop"
    /\ fnOut.i < fnIn.phrases
    /\ LET first == writePhrase(fnOut.cur)
           cur1 == checkPageBreak(first.cur)
           second == writePhrase(cur1)
       IN  fnOut' = IF fnOut.i + 1 < fnIn.phrases
                    THEN [cur |-> checkPageBreak(second.cur), i |-> fnOut.i + 2,
                          drawn |-> <<first.entry, second.entry>>]
                    ELSE [cur |-> cur1, i |-> fnOut.i + 2, drawn |-> <<first.entry>>]
    /\ UNCHANGED <<pc, FnFrame>>

\* the loop is left: doc.addPage() and the cursor at the start of the
\* highlighted-text page
PhraseLoopExit ==
    /\ pc = "phraseLoop"
    /\ fnOut.i >= fnIn.phrases
    /\ fnOut' = [cur |-> [addPage(fnOut.cur) EXCEPT !.x = 10, !.y = 20], i |-> 0,
                 drawn |-> <<>>]
    /\ pc' = "wordLoop"
    /\ UNCHANGED FnFrame

\* the callback of text.forEach for an empty piece of the text: nothing is
\* drawn
EmptyWord ==
    /\ pc = "wordLoop"
    /\ fnOut.i < MaxTokens
    /\ fnOut' = [fnOut EXCEPT !.i = @ + 1, !.drawn = <<>>]
    /\ UNCHANGED <<pc, FnFrame>>

\* the callback of text.forEach for the next word of the text, whatever its
\* width
WordTurn ==
    /\ pc = "wordLoop"
    /\ fnOut.i < MaxTokens
    /\ \E wordWidth \in TokenWidths :
          LET w == writeWord(fnOut.cur, wordWidth)
          IN  fnOut' = [cur |-> w.cur, i |-> fnOut.i + 1, drawn |-> <<w.entry>>]
    /\ UNCHANGED <<pc, FnFrame>>

\* the text has no more pieces: return doc
WordLoopExit ==
    /\ pc = "wordLoop"
    /\ pc' = "pagesDone"
    /\ UNCHANGED <<fnOut, FnFrame>>

NextAiPages ==
    \/ PhraseHeader
    \/ PhraseTurn
    \/ PhraseLoopExit
    \/ EmptyWord
    \/ WordTurn
    \/ WordLoopExit

SpecAiPages == InitAiPages /\ [][NextAiPages]_vars

----------------------------------------------------------------------------
(* Properties of the page breaks, checked under SpecAiPages *)

\* between two elements the cursor is within the margins
CursorWithinMargins ==
    pc \in {"phraseLoop", "wordLoop", "pagesDone"} =>
        /\ fnOut.cur.y >= 20
        /\ fnOut.cur.y <= 280

\* every element just drawn was started with the cursor within the margins,
\* and all its lines are on the page it was started on
DrawnWithinMargins ==
    pc \in {"phraseLoop", "wordLoop", "pagesDone"} =>
        \A k \in 1..Len(fnOut.drawn) :
            LET e == fnOut.drawn[k]
            IN  /\ e.y >= 20
                /\ e.y <= 280
                /\ e.kind = "phrase" => Len(e.lines) = 3
                /\ \A l \in 1..Len(e.lines) : e.lines[l].page = e.page

\* C27: on the phrase pages and on the highlighted-text pages, a cursor that
\* has passed the bottom margin 280 after an element is followed by a new page
\* and the cursor 20 before the next element: every phrase entry and every
\* word is started with the cursor in [20, 280], the three lines of a phrase
\* entry are on one page, and the page count never decreases.
PageBreaksKeepCursorInMargins ==
    /\ []CursorWithinMargins
    /\ []DrawnWithinMargins
    /\ [][fnOut'.cur.page >= fnOut.cur.page]_vars
    /\ [][(pc = "phraseLoop" /\ pc' = "phraseLoop" /\ fnOut.cur.y + 32 > 280)
             => fnOut'.cur.page > fnOut.cur.page]_vars

\* the last phrase entry of a second phrase page, started at 276, and the
\* page break after it
PageBreaksKeepCursorInMarginsWitness ==
    /\ pc = "phraseLoop"
    /\ fnOut.cur.page = 4
    /\ fnOut.cur.y = 20
    /\ \E k \in 1..Len(fnOut.drawn) : fnOut.drawn[k].y = 276 /\ fnOut.drawn[k].page = 3

====
